---- MODULE Spec2Model ----
(***************************************************************************)
(* Chunked annotation pipeline of Googolplex-Books: the chunker, the       *)
(* cached and retried transform calls, the stage orchestrator, the marker  *)
(* extraction and the document reconstruction, as implemented in           *)
(* src/src/processor.py, src/modelo/faz.py and src/correcaoKDP.py.         *)
(*                                                                         *)
(* A text is a sequence of tokens.  A token is one character ("a", ".",    *)
(* " ", "\n", ...) or a literal the code only ever handles as a whole (the *)
(* page-break sentinel, the failure marker, a word of the scenario).       *)
(* TokLen gives the number of characters a token stands for.               *)
(***************************************************************************)
EXTENDS Integers, Sequences, FiniteSets, TLC

VARIABLES
    ck_pc,        \* chunker run: "input" | "done"
    ck_variant,   \* which create_chunks: "processor" | "kdp"
    ck_text,      \* the text handed to create_chunks
    ck_max,       \* max_tokens
    ck_out,       \* the returned chunk list
    mk_pc,        \* marker extraction: "input" | "done"
    mk_variant,   \* which extraction: "processor" | "kdp"
    mk_segs,      \* what the marked text was made of, piece by piece
    mk_clean,     \* the returned clean text
    mk_notes,     \* the returned footnote list
    rt_pc,        \* one transform call: "try" | "returned"
    rt_variant,   \* "processor" (ModelClient.generate) | "kdp" (_call_gemini_api)
    rt_max,       \* max_retries
    rt_attempt,   \* the loop variable attempt
    rt_base,      \* base_wait_time
    rt_log,       \* what each attempt against the service ended in
    rt_waits,     \* the time.sleep() calls made, in order
    rt_result,    \* the value returned to the caller
    rt_chunk,     \* chunk_for_log, the chunk the call is about
    rt_answer,    \* the text the service answered the last attempt with, if any
    rt_warned,    \* the "parece muito curta" warnings logged
    st_pc,        \* one stage run: "start" | "loop" | "gather" | "returned" | "failed"
    st_variant,   \* "processor" (process_chunks_parallel) | "kdp" (the sequential passes)
    st_mode,      \* "correction" | "footnotes"
    st_parallel,  \* the batch size
    st_chunks,    \* the chunk list handed to the stage
    st_run,       \* 1, or 2 when the stage runs again on the same list
    st_i,         \* how many chunks the loop has been through
    st_tasks,     \* the tasks of the batch being gathered
    st_results,   \* the output list
    st_cache,     \* the rows of the cache
    st_calls,     \* the chunks (by position) the client was called for in this run
    st_failed,    \* those of them the client returned None for
    st_stored,    \* the chunk texts the first run got a non-empty answer for
    st_reordered, \* some task of a batch finished before an earlier one
    st_storage,   \* the cache's storage: "ok" | "readonly" (writes raise) | "down" (all raise)
    st_succeeded, \* when a run was ended from outside: the chunk texts the client had returned a text for
    st_crashed,   \* the first run ended in a crash of the process
    bk_pc,        \* process_book: "read" | "correction" | "footnotes" | "docx" | "returned"
    bk_original,  \* the text of the input file
    bk_max,       \* MAX_CHUNK_TOKENS
    bk_chunks,    \* chunks, then note_chunks
    bk_text,      \* corrected_text, then marked_text, then final_text
    bk_cache,     \* the rows of the cache
    bk_plan,      \* how the service behaved in each stage so far
    bk_footnotes, \* the footnote list
    bk_events,    \* what generate_docx wrote to the document, in order
    bk_success,   \* what process_book returns: "pending" | "true" | "false"
    ca_pc,        \* the cache on its own: "open" | "closed" (no process has the file open)
    ca_rows,      \* the rows of its two tables
    ca_puts,      \* the set_* calls made so far, in order
    ca_got,       \* the last get_* call: what was asked, what came back, after how many puts
    dx_pc,        \* the reconstruction on its own: "start" | "done"
    dx_variant,   \* "processor" (generate_docx) | "kdp" (apply_formatting_pass1, chunk after chunk)
    dx_lib,       \* the python-docx release the build has: "0.8" | "1.x"
    dx_chunks,    \* the texts handed to the reconstruction, in order
    dx_footnotes, \* the footnote list handed to generate_docx
    dx_i,         \* how many of the texts have been through it
    dx_events,    \* the paragraphs of the document so far, in order
    ps_pc,        \* run_correction_pass: "loop" | "save" | "final" | "returned"
    ps_lib,       \* the python-docx release the pass runs under
    ps_n,         \* len(text_chunks)
    ps_i,         \* how many chunks the loop has been through
    ps_processed, \* processed_chunks_count
    ps_failed,    \* failed_chunks_count
    ps_doc,       \* doc, the document in memory: its structural events
    ps_file,      \* what lies at output_docx_path
    ps_writes,    \* the writes of the document attempted so far
    mn_pc,        \* correcaoKDP.main: "load" | "book" | "pass2" | "pass3" | "translation" | "end"
    mn_run,       \* which execution of main this is
    mn_books,     \* the file identifiers of the books found, in the order of the loops
    mn_k,         \* the place of the current book in mn_books
    mn_log,       \* the lines of PROCESSED_LOG_FILE
    mn_tlog,      \* the lines of TRANSLATED_LOG_FILE
    mn_processed, \* processed_files_set
    mn_translated, \* translated_files_set
    mn_csr,       \* correction_successful_this_run
    mn_docx,      \* the books whose corrected DOCX exists
    mn_faulty,    \* reading one of the logs has raised in some execution
    mn_hist       \* what this execution has done to the books, in order

chunkVars == <<ck_pc, ck_variant, ck_text, ck_max, ck_out>>

markerVars == <<mk_pc, mk_variant, mk_segs, mk_clean, mk_notes>>

retryVars == <<rt_pc, rt_variant, rt_max, rt_attempt, rt_base, rt_log, rt_waits, rt_result,
               rt_chunk, rt_answer, rt_warned>>

stageVars == <<st_pc, st_variant, st_mode, st_parallel, st_chunks, st_run, st_i, st_tasks,
               st_results, st_cache, st_calls, st_failed, st_stored, st_reordered,
               st_storage, st_succeeded, st_crashed>>

bookVars == <<bk_pc, bk_original, bk_max, bk_chunks, bk_text, bk_cache, bk_plan,
              bk_footnotes, bk_events, bk_success>>

cacheVars == <<ca_pc, ca_rows, ca_puts, ca_got>>

docxVars == <<dx_pc, dx_variant, dx_lib, dx_chunks, dx_footnotes, dx_i, dx_events>>

passVars == <<ps_pc, ps_lib, ps_n, ps_i, ps_processed, ps_failed, ps_doc, ps_file, ps_writes>>

mainVars == <<mn_pc, mn_run, mn_books, mn_k, mn_log, mn_tlog, mn_processed, mn_translated,
              mn_csr, mn_docx, mn_faulty, mn_hist>>

vars == <<chunkVars, markerVars, retryVars, stageVars, bookVars, cacheVars, docxVars, passVars, mainVars>>

\* a component that is not part of the run at hand
ChunkIdle ==
    /\ ck_pc = "idle" /\ ck_variant = "none" /\ ck_text = <<>>
    /\ ck_max = 0 /\ ck_out = <<>>

MarkerIdle ==
    /\ mk_pc = "idle" /\ mk_variant = "none" /\ mk_segs = <<>>
    /\ mk_clean = <<>> /\ mk_notes = <<>>

\* Optional[str]: None, or a text
None == [none |-> TRUE, text |-> <<>>]
Some(t) == [none |-> FALSE, text |-> t]

RetryIdle ==
    /\ rt_pc = "idle" /\ rt_variant = "none" /\ rt_max = 0 /\ rt_attempt = 0
    /\ rt_base = 0 /\ rt_log = <<>> /\ rt_waits = <<>> /\ rt_result = None
    /\ rt_chunk = <<>> /\ rt_answer = None /\ rt_warned = 0

StageIdle ==
    /\ st_pc = "idle" /\ st_variant = "none" /\ st_mode = "none" /\ st_parallel = 0
    /\ st_chunks = <<>> /\ st_run = 0 /\ st_i = 0 /\ st_tasks = <<>>
    /\ st_results = <<>> /\ st_cache = {} /\ st_calls = {} /\ st_failed = {}
    /\ st_stored = {} /\ st_reordered = FALSE
    /\ st_storage = "none" /\ st_succeeded = {} /\ st_crashed = FALSE

BookIdle ==
    /\ bk_pc = "idle" /\ bk_original = <<>> /\ bk_max = 0 /\ bk_chunks = <<>>
    /\ bk_text = <<>> /\ bk_cache = {} /\ bk_plan = <<>> /\ bk_footnotes = <<>>
    /\ bk_events = <<>> /\ bk_success = "idle"

CacheIdle ==
    /\ ca_pc = "idle" /\ ca_rows = {} /\ ca_puts = <<>> /\ ca_got = <<>>

DocxIdle ==
    /\ dx_pc = "idle" /\ dx_variant = "none" /\ dx_lib = "none" /\ dx_chunks = <<>>
    /\ dx_footnotes = <<>> /\ dx_i = 0 /\ dx_events = <<>>

PassIdle ==
    /\ ps_pc = "idle" /\ ps_lib = "none" /\ ps_n = 0 /\ ps_i = 0 /\ ps_processed = 0
    /\ ps_failed = 0 /\ ps_doc = <<>> /\ ps_file = [state |-> "absent", events |-> <<>>]
    /\ ps_writes = <<>>

MainIdle ==
    /\ mn_pc = "idle" /\ mn_run = 0 /\ mn_books = <<>> /\ mn_k = 0 /\ mn_log = <<>>
    /\ mn_tlog = <<>> /\ mn_processed = {} /\ mn_translated = {} /\ mn_csr = FALSE
    /\ mn_docx = {} /\ mn_faulty = FALSE /\ mn_hist = <<>>

\* ------------------------------------------------------------------ text

NL == "\n"
SP == " "
PAGE_BREAK_MARKER == "===QUEBRA_DE_PAGINA==="
AI_FAILURE_MARKER == "*** FALHA NA IA ***"

Whitespace == {SP, NL}
SentenceEnd == {".", "!", "?"}

\* len() of the literal a token stands for
TokLen(tok) ==
    CASE tok = PAGE_BREAK_MARKER -> 22
      [] tok = AI_FAILURE_MARKER -> 19
      [] tok \in {"Chapter", "chapter"} -> 7
      [] tok = "Second" -> 6
      [] tok \in {"Hello", "wordl", "world"} -> 5
      [] tok = "page" -> 4
      [] OTHER -> 1

RECURSIVE TextLen(_)
TextLen(s) == IF s = <<>> THEN 0 ELSE TokLen(Head(s)) + TextLen(Tail(s))

IsBlank(s) == \A i \in 1..Len(s) : s[i] \in Whitespace

\* str.strip()
Strip(s) ==
    IF IsBlank(s) THEN <<>>
    ELSE LET lo == CHOOSE i \in 1..Len(s) :
                       /\ s[i] \notin Whitespace
                       /\ \A j \in 1..(i-1) : s[j] \in Whitespace
             hi == CHOOSE i \in 1..Len(s) :
                       /\ s[i] \notin Whitespace
                       /\ \A j \in (i+1)..Len(s) : s[j] \in Whitespace
         IN  SubSeq(s, lo, hi)

\* sep occurs in s at position i
OccursAt(s, sep, i) ==
    /\ i >= 1
    /\ i + Len(sep) - 1 <= Len(s)
    /\ SubSeq(s, i, i + Len(sep) - 1) = sep

\* str.find(sep) + 1, 0 when absent
Find(s, sep) ==
    IF \E i \in 1..Len(s) : OccursAt(s, sep, i)
    THEN CHOOSE i \in 1..Len(s) :
             /\ OccursAt(s, sep, i)
             /\ \A j \in 1..(i-1) : ~OccursAt(s, sep, j)
    ELSE 0

\* str.split(sep)
RECURSIVE Split(_, _)
Split(s, sep) ==
    LET k == Find(s, sep)
    IN  IF k = 0 THEN <<s>>
        ELSE <<SubSeq(s, 1, k - 1)>> \o Split(SubSeq(s, k + Len(sep), Len(s)), sep)

\* sep.join(parts)
RECURSIVE Join(_, _)
Join(parts, sep) ==
    IF parts = <<>> THEN <<>>
    ELSE IF Len(parts) = 1 THEN parts[1]
    ELSE parts[1] \o sep \o Join(Tail(parts), sep)

ParaSep == <<NL, NL>>

\* re.split(r'(?<=[.!?])\s+', s)
RECURSIVE SplitSentences(_)
SplitSentences(s) ==
    LET starts == {i \in 2..Len(s) : s[i] \in Whitespace /\ s[i-1] \in SentenceEnd}
    IN  IF starts = {} THEN <<s>>
        ELSE LET i == CHOOSE x \in starts : \A y \in starts : x <= y
                 j == CHOOSE x \in i..Len(s) :
                          /\ \A y \in i..x : s[y] \in Whitespace
                          /\ (x = Len(s) \/ s[x+1] \notin Whitespace)
             IN  <<SubSeq(s, 1, i - 1)>> \o SplitSentences(SubSeq(s, j + 1, Len(s)))

\* ---------------------------------------------------------------- chunker

TokenRatio == 4      \* processor.py, faz.py: len(text) // 4
TokenRatioKDP == 3   \* correcaoKDP.py: len(text) // 3

count_tokens(text) == IF text = <<>> THEN 0 ELSE TextLen(text) \div TokenRatio

count_tokens_approx(text) == IF text = <<>> THEN 0 ELSE TextLen(text) \div TokenRatioKDP

\* mutant: a sentence is joined to what precedes it whatever its size
SentenceStepJoined(sent, max_tokens, st) ==
    LET sub == st.sub \o (IF st.sub # <<>> THEN <<SP>> ELSE <<>>) \o sent
    IN  [st EXCEPT !.sub = sub, !.sub_tokens = count_tokens(sub)]

\* processor.create_chunks: one sentence of an oversized paragraph
SentenceStep(sent, max_tokens, st) ==
    LET sent_tokens == count_tokens(sent)
    IN  IF st.sub_tokens + sent_tokens + 1 <= max_tokens
        THEN LET sub == st.sub \o (IF st.sub # <<>> THEN <<SP>> ELSE <<>>) \o sent
             IN  [st EXCEPT !.sub = sub, !.sub_tokens = count_tokens(sub)]
        ELSE LET flushed == IF st.sub # <<>> THEN Append(st.chunks, st.sub) ELSE st.chunks
             IN  IF sent_tokens > max_tokens
                 THEN [chunks |-> Append(flushed, sent), sub |-> <<>>, sub_tokens |-> 0]
                 ELSE [chunks |-> flushed, sub |-> sent, sub_tokens |-> sent_tokens]

RECURSIVE SentenceLoop(_, _, _, _)
SentenceLoop(sentences, k, max_tokens, st) ==
    IF k > Len(sentences) THEN st
    ELSE SentenceLoop(sentences, k + 1, max_tokens,
                      SentenceStep(sentences[k], max_tokens, st))

\* processor.create_chunks: one paragraph of the main loop
ParagraphStep(raw, max_tokens, st) ==
    LET para == Strip(raw)
        para_tokens == count_tokens(para)
    IN  IF para = <<>> THEN st
        ELSE IF st.current_tokens + para_tokens + 2 <= max_tokens
        THEN LET current == st.current \o (IF st.current # <<>> THEN ParaSep ELSE <<>>) \o para
             IN  [st EXCEPT !.current = current, !.current_tokens = count_tokens(current)]
        ELSE LET flushed == IF st.current # <<>> THEN Append(st.chunks, st.current)
                            ELSE st.chunks
             IN  IF para_tokens > max_tokens
                 THEN LET r == SentenceLoop(SplitSentences(para), 1, max_tokens,
                                   [chunks |-> flushed, sub |-> <<>>, sub_tokens |-> 0])
                      IN  [chunks |-> r.chunks,
                           current |-> r.sub,
                           current_tokens |-> IF r.sub # <<>> THEN r.sub_tokens ELSE 0]
                 ELSE [chunks |-> flushed, current |-> para, current_tokens |-> para_tokens]

RECURSIVE ParagraphLoop(_, _, _, _)
ParagraphLoop(paragraphs, k, max_tokens, st) ==
    IF k > Len(paragraphs) THEN st
    ELSE ParagraphLoop(paragraphs, k + 1, max_tokens,
                       ParagraphStep(paragraphs[k], max_tokens, st))

\* mutant: the merge pass joins nothing
MergeStepApart(chunk, max_tokens, st) ==
    [merged |-> IF st.temp # <<>> THEN Append(st.merged, st.temp) ELSE st.merged,
     temp |-> chunk, temp_tokens |-> count_tokens(chunk)]

\* processor.create_chunks: one chunk of the merge pass
MergeStep(chunk, max_tokens, st) ==
    LET chunk_tokens == count_tokens(chunk)
    IN  IF st.temp_tokens + chunk_tokens + 2 <= max_tokens
        THEN LET temp == st.temp \o (IF st.temp # <<>> THEN ParaSep ELSE <<>>) \o chunk
             IN  [st EXCEPT !.temp = temp, !.temp_tokens = count_tokens(temp)]
        ELSE [merged |-> IF st.temp # <<>> THEN Append(st.merged, st.temp) ELSE st.merged,
              temp |-> chunk, temp_tokens |-> chunk_tokens]

RECURSIVE MergeLoop(_, _, _, _)
MergeLoop(chunks, k, max_tokens, st) ==
    IF k > Len(chunks) THEN st
    ELSE MergeLoop(chunks, k + 1, max_tokens, MergeStep(chunks[k], max_tokens, st))

\* processor.create_chunks before its merge pass
InitialChunks(text, max_tokens) ==
    LET r == ParagraphLoop(Split(text, ParaSep), 1, max_tokens,
                 [chunks |-> <<>>, current |-> <<>>, current_tokens |-> 0])
    IN  IF r.current # <<>> THEN Append(r.chunks, r.current) ELSE r.chunks

\* mutant: the merge pass forgets the chunk it is still holding at the end
MergeChunksDropLast(chunks, max_tokens) ==
    MergeLoop(chunks, 1, max_tokens,
              [merged |-> <<>>, temp |-> <<>>, temp_tokens |-> 0]).merged

MergeChunks(chunks, max_tokens) ==
    LET m == MergeLoop(chunks, 1, max_tokens,
                 [merged |-> <<>>, temp |-> <<>>, temp_tokens |-> 0])
    IN  IF m.temp # <<>> THEN Append(m.merged, m.temp) ELSE m.merged

create_chunks(text, max_tokens) ==
    IF text = <<>> \/ IsBlank(text) THEN <<>>
    ELSE MergeChunks(InitialChunks(text, max_tokens), max_tokens)


\* str.endswith(suffix)
EndsWith(s, suffix) ==
    /\ Len(s) >= Len(suffix)
    /\ SubSeq(s, Len(s) - Len(suffix) + 1, Len(s)) = suffix

\* correcaoKDP.create_chunks: one sentence or line of an oversized paragraph
SentenceStepKDP(sentence, max_tokens, st) ==
    IF Strip(sentence) = <<>> THEN st
    ELSE
    LET sentence_tokens == count_tokens_approx(sentence)
        tokens_with_sub_separator ==
            sentence_tokens + (IF st.sub # <<>> THEN count_tokens_approx(<<NL>>) ELSE 0)
    IN  IF st.sub_tokens + tokens_with_sub_separator <= max_tokens
        THEN LET sub == st.sub \o (IF st.sub # <<>> THEN <<NL>> ELSE <<>>) \o sentence
             IN  [st EXCEPT !.sub = sub, !.sub_tokens = count_tokens_approx(sub)]
        ELSE LET flushed == IF st.sub # <<>> THEN Append(st.chunks, st.sub) ELSE st.chunks
                 added == IF st.sub # <<>> THEN st.added + 1 ELSE st.added
             IN  IF sentence_tokens > max_tokens
                 THEN [chunks |-> Append(flushed, sentence), sub |-> <<>>,
                       sub_tokens |-> 0, added |-> added + 1]
                 ELSE [chunks |-> flushed, sub |-> sentence,
                       sub_tokens |-> sentence_tokens, added |-> added]

RECURSIVE SentenceLoopKDP(_, _, _, _)
SentenceLoopKDP(sentences, k, max_tokens, st) ==
    IF k > Len(sentences) THEN st
    ELSE SentenceLoopKDP(sentences, k + 1, max_tokens,
                         SentenceStepKDP(sentences[k], max_tokens, st))

\* correcaoKDP.create_chunks: the units an oversized paragraph is divided into
SubdivisionUnits(paragraph_text) ==
    LET sentences == SplitSentences(paragraph_text)
    IN  IF Len(sentences) <= 1 THEN Split(paragraph_text, <<NL>>) ELSE sentences

\* correcaoKDP.create_chunks: the subdivision of an oversized paragraph
SubdivideKDP(paragraph_text, max_tokens, chunks) ==
    LET r == SentenceLoopKDP(SubdivisionUnits(paragraph_text), 1, max_tokens,
                 [chunks |-> chunks, sub |-> <<>>, sub_tokens |-> 0, added |-> 0])
        last == IF r.sub # <<>> THEN Append(r.chunks, r.sub) ELSE r.chunks
        added == IF r.sub # <<>> THEN r.added + 1 ELSE r.added
    IN  IF added = 0 THEN Append(last, paragraph_text) ELSE last

\* mutant: a blank paragraph becomes a chunk of spacing
BlankParagraphAsChunk(chunks) == Append(chunks, ParaSep)

\* correcaoKDP.create_chunks: a blank paragraph leaves spacing on the last chunk
BlankParagraphKDP(chunks) ==
    IF /\ chunks # <<>>
       /\ Strip(chunks[Len(chunks)]) # <<>>
       /\ ~EndsWith(chunks[Len(chunks)], ParaSep)
    THEN [chunks EXCEPT ![Len(chunks)] = @ \o ParaSep]
    ELSE chunks

\* correcaoKDP.create_chunks: one paragraph of the main loop
ParagraphStepKDP(paragraph_text, max_tokens, st) ==
    IF Strip(paragraph_text) = <<>>
    THEN [st EXCEPT !.chunks = BlankParagraphKDP(st.chunks)]
    ELSE
    LET paragraph_tokens == count_tokens_approx(paragraph_text)
        tokens_with_separator ==
            paragraph_tokens
            + (IF st.current # <<>> THEN count_tokens_approx(ParaSep) ELSE 0)
    IN  IF st.current_tokens + tokens_with_separator <= max_tokens
        THEN LET current == st.current \o (IF st.current # <<>> THEN ParaSep ELSE <<>>)
                            \o paragraph_text
             IN  [st EXCEPT !.current = current,
                            !.current_tokens = count_tokens_approx(current)]
        ELSE LET flushed == IF st.current # <<>> THEN Append(st.chunks, st.current)
                            ELSE st.chunks
             IN  IF paragraph_tokens > max_tokens
                 THEN [chunks |-> SubdivideKDP(paragraph_text, max_tokens, flushed),
                       current |-> <<>>, current_tokens |-> 0]
                 ELSE [chunks |-> flushed, current |-> paragraph_text,
                       current_tokens |-> paragraph_tokens]

RECURSIVE ParagraphLoopKDP(_, _, _, _)
ParagraphLoopKDP(paragraphs, k, max_tokens, st) ==
    IF k > Len(paragraphs) THEN st
    ELSE ParagraphLoopKDP(paragraphs, k + 1, max_tokens,
                          ParagraphStepKDP(paragraphs[k], max_tokens, st))

\* correcaoKDP.create_chunks: one chunk of the merge pass
MergeStepKDP(chunk, max_tokens, st) ==
    LET chunk_tokens == count_tokens_approx(chunk)
        tokens_with_separator ==
            chunk_tokens + (IF st.temp # <<>> THEN count_tokens_approx(ParaSep) ELSE 0)
    IN  IF st.temp_tokens + tokens_with_separator <= max_tokens
        THEN LET temp == st.temp \o (IF st.temp # <<>> THEN ParaSep ELSE <<>>) \o chunk
             IN  [st EXCEPT !.temp = temp, !.temp_tokens = count_tokens_approx(temp)]
        ELSE [merged |-> IF st.temp # <<>> THEN Append(st.merged, st.temp) ELSE st.merged,
              temp |-> chunk, temp_tokens |-> chunk_tokens]

RECURSIVE MergeLoopKDP(_, _, _, _)
MergeLoopKDP(chunks, k, max_tokens, st) ==
    IF k > Len(chunks) THEN st
    ELSE MergeLoopKDP(chunks, k + 1, max_tokens, MergeStepKDP(chunks[k], max_tokens, st))

\* correcaoKDP.create_chunks before its merge pass
InitialChunksKDP(text, max_tokens) ==
    LET r == ParagraphLoopKDP(Split(text, ParaSep), 1, max_tokens,
                 [chunks |-> <<>>, current |-> <<>>, current_tokens |-> 0])
    IN  IF r.current # <<>> THEN Append(r.chunks, r.current) ELSE r.chunks

MergeChunksKDP(chunks, max_tokens) ==
    LET m == MergeLoopKDP(chunks, 1, max_tokens,
                 [merged |-> <<>>, temp |-> <<>>, temp_tokens |-> 0])
    IN  IF m.temp # <<>> THEN Append(m.merged, m.temp) ELSE m.merged

create_chunks_kdp(text, max_tokens) ==
    MergeChunksKDP(InitialChunksKDP(text, max_tokens), max_tokens)


\* ------------------------------------------------------ marker extraction

\* the literal openings of the tags (a tag is closed by "]")
NOTA == "[NOTA:"                    \* processor.py, faz.py: [NOTA:term|explanation]
NOTA_NOME == "[NOTA_NOME:"          \* correcaoKDP.py: [NOTA_kind:reference]
NOTA_TERMO == "[NOTA_TERMO:"
CONTEUDO_NOTA == "[CONTEUDO_NOTA:"  \* correcaoKDP.py: [CONTEUDO_NOTA:explanation]
ReferenceTags == {NOTA_NOME, NOTA_TERMO}

\* str(n) for n >= 0, one token per digit
Digit(d) == <<"0", "1", "2", "3", "4", "5", "6", "7", "8", "9">>[d + 1]

RECURSIVE Str(_)
Str(n) == IF n < 10 THEN <<Digit(n)>> ELSE Str(n \div 10) \o <<Digit(n % 10)>>

\* the least index > p of s holding tok, 0 when there is none
NextIndexOf(s, p, tok) ==
    LET hits == {i \in (p + 1)..Len(s) : s[i] = tok}
    IN  IF hits = {} THEN 0 ELSE CHOOSE i \in hits : \A j \in hits : i <= j

\* the least index >= p of s that holds no whitespace, Len(s) + 1 when there is none
SkipWhitespace(s, p) ==
    LET stops == {i \in p..Len(s) : s[i] \notin Whitespace}
    IN  IF stops = {} THEN Len(s) + 1 ELSE CHOOSE i \in stops : \A j \in stops : i <= j

NoMatch == [ok |-> FALSE, end |-> 0, term |-> <<>>, content |-> <<>>]

\* correcaoKDP footnote_pattern matched at position p:
\* (\[NOTA_(?:IDIOMA|CITACAO|NOME|TERMO):[^\]]+?\])\s*(\[CONTEUDO_NOTA:([^\]]*?)\])
MatchPairAt(s, p) ==
    IF s[p] \notin ReferenceTags THEN NoMatch
    ELSE LET q == NextIndexOf(s, p, "]")
         IN  IF q < p + 2 THEN NoMatch
             ELSE LET c == SkipWhitespace(s, q + 1)
                  IN  IF c > Len(s) \/ s[c] # CONTEUDO_NOTA THEN NoMatch
                      ELSE LET r == NextIndexOf(s, c, "]")
                           IN  IF r = 0 THEN NoMatch
                               ELSE [ok |-> TRUE, end |-> r,
                                     term |-> SubSeq(s, p + 1, q - 1),
                                     content |-> SubSeq(s, c + 1, r - 1)]

\* processor.extract_footnotes pattern matched at position p:
\* \[NOTA:([^|]+)\|([^\]]+)\]
MatchNotaAt(s, p) ==
    IF s[p] # NOTA THEN NoMatch
    ELSE LET q == NextIndexOf(s, p, "|")
         IN  IF q < p + 2 THEN NoMatch
             ELSE LET r == NextIndexOf(s, q, "]")
                  IN  IF r < q + 2 THEN NoMatch
                      ELSE [ok |-> TRUE, end |-> r,
                            term |-> SubSeq(s, p + 1, q - 1),
                            content |-> SubSeq(s, q + 1, r - 1)]

\* correcaoKDP replace_marker_and_collect_note: the state after one match
replace_marker_and_collect_note(m, st) ==
    LET content == Strip(m.content)
    IN  IF content = <<>> THEN st
        ELSE [clean |-> st.clean \o <<"[">> \o Str(st.counter) \o <<"]">>,
              notes |-> Append(st.notes, Str(st.counter) \o <<".", SP>> \o content),
              counter |-> st.counter + 1]

\* processor.extract_footnotes.replace: the state after one match
replace(m, st) ==
    [clean |-> st.clean \o <<"[">> \o Str(st.counter) \o <<"]">>,
     notes |-> Append(st.notes, [number |-> st.counter,
                                 term |-> Strip(m.term),
                                 explanation |-> Strip(m.content)]),
     counter |-> st.counter + 1]

\* footnote_pattern.sub(replace_marker_and_collect_note, s), from position p on
RECURSIVE SubPairs(_, _, _)
SubPairs(s, p, st) ==
    IF p > Len(s) THEN st
    ELSE LET m == MatchPairAt(s, p)
         IN  IF m.ok THEN SubPairs(s, m.end + 1, replace_marker_and_collect_note(m, st))
             ELSE SubPairs(s, p + 1, [st EXCEPT !.clean = Append(@, s[p])])

\* re.sub(pattern, replace, s), from position p on
RECURSIVE SubNotas(_, _, _)
SubNotas(s, p, st) ==
    IF p > Len(s) THEN st
    ELSE LET m == MatchNotaAt(s, p)
         IN  IF m.ok THEN SubNotas(s, m.end + 1, replace(m, st))
             ELSE SubNotas(s, p + 1, [st EXCEPT !.clean = Append(@, s[p])])

\* correcaoKDP.run_final_txt_generation: (final_numbered_text, notes_found)
run_final_txt_generation(marked_text) ==
    SubPairs(marked_text, 1, [clean |-> <<>>, notes |-> <<>>, counter |-> 1])

\* processor.extract_footnotes, faz.process_footnote_markers: (clean, footnotes)
extract_footnotes(text) ==
    SubNotas(text, 1, [clean |-> <<>>, notes |-> <<>>, counter |-> 1])


\* ------------------------------------------------- the chunker as a machine

MaxUnits == 5        \* an input text is made of at most this many units
MaxTokens == 3       \* max_tokens ranges over 1..MaxTokens

\* what input texts are made of: words, a sentence end, spacing, line breaks
Units == { <<"a", "a">>, <<"a", ".">>, <<SP>>, <<NL>>, ParaSep }

RECURSIVE TextsOf(_)
TextsOf(n) == IF n = 0 THEN {<<>>}
              ELSE {t \o u : t \in TextsOf(n - 1), u \in Units}

InputTexts == UNION {TextsOf(n) : n \in 0..MaxUnits}

InitChunk ==
    /\ ck_pc = "input"
    /\ ck_variant = "none"
    /\ ck_text \in InputTexts
    /\ ck_max \in 1..MaxTokens
    /\ ck_out = <<>>
    /\ MarkerIdle /\ RetryIdle /\ StageIdle /\ BookIdle /\ CacheIdle /\ DocxIdle /\ PassIdle /\ MainIdle

\* processor.create_chunks(text, max_tokens) is called and returns
RunChunker ==
    /\ ck_pc = "input"
    /\ ck_pc' = "done"
    /\ ck_variant' = "processor"
    /\ ck_out' = create_chunks(ck_text, ck_max)
    /\ UNCHANGED <<ck_text, ck_max>>
    /\ UNCHANGED <<markerVars, retryVars, stageVars, bookVars, cacheVars, docxVars, passVars, mainVars>>

\* correcaoKDP.create_chunks(text, max_tokens) is called and returns
RunChunkerKDP ==
    /\ ck_pc = "input"
    /\ ck_pc' = "done"
    /\ ck_variant' = "kdp"
    /\ ck_out' = create_chunks_kdp(ck_text, ck_max)
    /\ UNCHANGED <<ck_text, ck_max>>
    /\ UNCHANGED <<markerVars, retryVars, stageVars, bookVars, cacheVars, docxVars, passVars, mainVars>>

NextChunk == RunChunker \/ RunChunkerKDP

SpecChunk == InitChunk /\ [][NextChunk]_vars

\* ---- helpers of the chunker's properties

RECURSIVE Flatten(_)
Flatten(chunks) == IF chunks = <<>> THEN <<>> ELSE Head(chunks) \o Flatten(Tail(chunks))

RECURSIVE NonWhitespace(_)
NonWhitespace(s) ==
    IF s = <<>> THEN <<>>
    ELSE IF Head(s) \in Whitespace THEN NonWhitespace(Tail(s))
    ELSE <<Head(s)>> \o NonWhitespace(Tail(s))

\* the separators create_chunks puts between units
Separators == { <<>>, <<SP>>, <<NL>>, ParaSep }

RECURSIVE JoinWith(_, _)
JoinWith(chunks, seps) ==
    IF chunks = <<>> THEN <<>>
    ELSE IF Len(chunks) = 1 THEN chunks[1]
    ELSE chunks[1] \o seps[1] \o JoinWith(Tail(chunks), Tail(seps))

\* the chunks, put together again with one separator between neighbours, are text
Reassembles(chunks, text) ==
    \E seps \in [1..(Len(chunks) - 1) -> Separators] : JoinWith(chunks, seps) = text

Estimate(variant, text) ==
    IF variant = "kdp" THEN count_tokens_approx(text) ELSE count_tokens(text)

\* a chunk that is one sentence or line (with the spacing a blank paragraph left on it)
UnitOf(chunk) ==
    IF EndsWith(chunk, ParaSep) THEN SubSeq(chunk, 1, Len(chunk) - 2) ELSE chunk

IsSingleUnit(chunk) ==
    /\ Find(UnitOf(chunk), ParaSep) = 0
    /\ Len(SplitSentences(UnitOf(chunk))) = 1

OversizedUnit(variant, chunk, max_tokens) ==
    IsSingleUnit(chunk) /\ Estimate(variant, UnitOf(chunk)) > max_tokens

\* C5 (as stated): the chunks put together again reproduce the text exactly
C5_ChunkCoverageExact ==
    ck_pc = "done" => Reassembles(ck_out, ck_text)

\* C5 (amended): the chunks hold exactly the text's non-whitespace characters, in
\* order; only whitespace at paragraph edges, blank paragraphs and the spacing
\* between sentences is dropped or replaced
C5_ChunkCoverage ==
    ck_pc = "done" => NonWhitespace(Flatten(ck_out)) = NonWhitespace(ck_text)

C5_Witness ==
    /\ ck_pc = "done"
    /\ Len(ck_out) >= 2
    /\ ~Reassembles(ck_out, ck_text)
    /\ \E i \in 1..Len(ck_out) : Len(SplitSentences(ck_out[i])) > 1

\* C6: every chunk's estimated size is at most max_tokens, except a chunk that is
\* a single sentence or line which alone exceeds max_tokens
C6_ChunkBound ==
    ck_pc = "done" =>
        \A i \in 1..Len(ck_out) :
            \/ Estimate(ck_variant, ck_out[i]) <= ck_max
            \/ OversizedUnit(ck_variant, ck_out[i], ck_max)

\* the bound as processor.py and faz.py keep it
ChunkBoundProcessor ==
    (ck_pc = "done" /\ ck_variant = "processor") =>
        \A i \in 1..Len(ck_out) :
            \/ Estimate(ck_variant, ck_out[i]) <= ck_max
            \/ OversizedUnit(ck_variant, ck_out[i], ck_max)



\* ---- the chunker on texts whose sentences and lines are long

MaxBigUnits == 3     \* such a text is made of at most this many sentences or lines

\* a sentence of 12 characters and a line of 11 without a sentence end
BigUnits == { <<"Hello", SP, "world", ".">>, <<"Second", SP, "page">> }

\* what stands between two of them
UnitGaps == { <<SP>>, <<NL>>, ParaSep }

RECURSIVE BigTextsOf(_)
BigTextsOf(n) == IF n = 1 THEN BigUnits
                 ELSE {t \o g \o u : t \in BigTextsOf(n - 1), g \in UnitGaps, u \in BigUnits}

BigTexts == UNION {BigTextsOf(n) : n \in 1..MaxBigUnits}

InitBigUnits ==
    /\ ck_pc = "input"
    /\ ck_variant = "none"
    /\ ck_text \in BigTexts
    /\ ck_max \in 1..MaxTokens
    /\ ck_out = <<>>
    /\ MarkerIdle /\ RetryIdle /\ StageIdle /\ BookIdle /\ CacheIdle /\ DocxIdle /\ PassIdle /\ MainIdle

SpecBigUnits == InitBigUnits /\ [][NextChunk]_vars

\* the non-blank units of a list, without the blanks around them
RECURSIVE StrippedUnits(_)
StrippedUnits(units) ==
    IF units = <<>> THEN <<>>
    ELSE (IF Strip(Head(units)) = <<>> THEN <<>> ELSE <<Strip(Head(units))>>)
             \o StrippedUnits(Tail(units))

\* the units the chunker can divide a text into: the sentences of each
\* paragraph and, in correcaoKDP.py, the lines of a paragraph that is one sentence
RECURSIVE UnitsOfParagraphs(_, _)
UnitsOfParagraphs(variant, paragraphs) ==
    IF paragraphs = <<>> THEN <<>>
    ELSE StrippedUnits(IF variant = "kdp" THEN SubdivisionUnits(Head(paragraphs))
                       ELSE SplitSentences(Strip(Head(paragraphs))))
             \o UnitsOfParagraphs(variant, Tail(paragraphs))

UnitsOfText(variant, text) == UnitsOfParagraphs(variant, Split(text, ParaSep))

\* max_tokens is smaller than the smallest unit of the text
BelowEveryUnit(variant, text, max_tokens) ==
    LET units == UnitsOfText(variant, text)
    IN  \A k \in 1..Len(units) : Estimate(variant, units[k]) > max_tokens

\* C18: create_chunks terminates for every text and every max_tokens >= 1: a
\* call that is made returns a list, of no more chunks than the text has units
\* (each loop of the chunker goes once through a list made before it starts).
\* And when max_tokens is smaller than the shortest unit, every unit is emitted
\* alone as a chunk of its own, in order, neither divided further nor joined.
C18_ChunkerTermination ==
    /\ ck_pc = "input" =>
           /\ Len(create_chunks(ck_text, ck_max)) <= Len(UnitsOfText("processor", ck_text))
           /\ Len(create_chunks_kdp(ck_text, ck_max)) <= Len(UnitsOfText("kdp", ck_text))
    /\ (ck_pc = "done" /\ BelowEveryUnit(ck_variant, ck_text, ck_max)) =>
           [k \in 1..Len(ck_out) |-> Strip(UnitOf(ck_out[k]))] = UnitsOfText(ck_variant, ck_text)

\* the chunker has returned three chunks for a text of three units, each
\* larger than max_tokens, some of them sentences or lines of one paragraph
C18_Witness ==
    /\ ck_pc = "done"
    /\ BelowEveryUnit(ck_variant, ck_text, ck_max)
    /\ Len(ck_out) = 3
    /\ Len(Split(ck_text, ParaSep)) = 2


\* ---- blank input and blank paragraphs

\* the paragraphs of a text that are not blank, in order
NonBlankParagraphs(text) == StrippedUnits(Split(text, ParaSep))

\* the text has a blank paragraph between two that are not
BlankParagraphInside(text) ==
    LET paragraphs == Split(text, ParaSep)
    IN  \E i, j, k \in 1..Len(paragraphs) :
            /\ i < j /\ j < k
            /\ ~IsBlank(paragraphs[i]) /\ IsBlank(paragraphs[j]) /\ ~IsBlank(paragraphs[k])

\* C21: an empty or blank text gives the empty list; no chunk returned is empty
\* or blank, so a blank paragraph gives no chunk of its own; and the non-blank
\* paragraphs of the text are found in the chunk list in the order they had,
\* whatever blank paragraphs stood between them
C21_NoEmptyChunks ==
    /\ (ck_pc = "input" /\ IsBlank(ck_text)) =>
           /\ create_chunks(ck_text, ck_max) = <<>>
           /\ create_chunks_kdp(ck_text, ck_max) = <<>>
    /\ ck_pc = "done" =>
           /\ IsBlank(ck_text) => ck_out = <<>>
           /\ \A i \in 1..Len(ck_out) : ck_out[i] # <<>> /\ ~IsBlank(ck_out[i])
           /\ Len(ck_out) <= Len(UnitsOfText(ck_variant, ck_text))
           /\ NonWhitespace(Flatten(ck_out))
                  = NonWhitespace(Flatten(NonBlankParagraphs(ck_text)))

\* two chunks for a text with a blank paragraph between two others
C21_Witness ==
    /\ ck_pc = "done"
    /\ BlankParagraphInside(ck_text)
    /\ Len(ck_out) = 2
    /\ Len(NonBlankParagraphs(ck_text)) = 2


\* ---- the chunker on texts whose paragraphs are a few sentences long

MaxMergeUnits == 4   \* such a text is made of at most this many sentences or lines
MinMergeTokens == 5  \* max_tokens ranges over MinMergeTokens..MaxMergeTokens
MaxMergeTokens == 8

InitMerge ==
    /\ ck_pc = "input"
    /\ ck_variant = "none"
    /\ ck_text \in UNION {BigTextsOf(n) : n \in 1..MaxMergeUnits}
    /\ ck_max \in MinMergeTokens..MaxMergeTokens
    /\ ck_out = <<>>
    /\ MarkerIdle /\ RetryIdle /\ StageIdle /\ BookIdle /\ CacheIdle /\ DocxIdle /\ PassIdle /\ MainIdle

SpecMerge == InitMerge /\ [][NextChunk]_vars

\* ---- the merge pass

\* the chunk list the merge pass is handed
PreMerge(variant, text, max_tokens) ==
    IF variant = "kdp" THEN InitialChunksKDP(text, max_tokens)
    ELSE IF text = <<>> \/ IsBlank(text) THEN <<>>
    ELSE InitialChunks(text, max_tokens)

\* what each merge pass adds to the two sizes for the separator:
\* 2 in processor.py, count_tokens_approx("\n\n") in correcaoKDP.py
SeparatorAllowance(variant) ==
    IF variant = "kdp" THEN count_tokens_approx(ParaSep) ELSE 2

\* merged is made of runs of neighbours of chunks, in order, each run joined
\* with the paragraph separator
RECURSIVE IsRunsOf(_, _)
IsRunsOf(merged, chunks) ==
    IF merged = <<>> THEN chunks = <<>>
    ELSE \E n \in 1..Len(chunks) :
             /\ Join(SubSeq(chunks, 1, n), ParaSep) = Head(merged)
             /\ IsRunsOf(Tail(merged), SubSeq(chunks, n + 1, Len(chunks)))

\* C22: every chunk returned is a run of neighbouring chunks of the list the
\* merge pass was handed, joined with the paragraph separator, the runs being
\* in order and using up the list; and for every two neighbours of the result
\* the two estimated sizes and the separator allowance exceed max_tokens
C22_MergePass ==
    ck_pc = "done" =>
        /\ IsRunsOf(ck_out, PreMerge(ck_variant, ck_text, ck_max))
        /\ \A i \in 1..(Len(ck_out) - 1) :
               Estimate(ck_variant, ck_out[i]) + Estimate(ck_variant, ck_out[i + 1])
                   + SeparatorAllowance(ck_variant) > ck_max

\* the merge pass of processor.py has joined some chunks and left two apart
C22_Witness ==
    /\ ck_pc = "done" /\ ck_variant = "processor"
    /\ Len(ck_out) >= 2
    /\ Len(PreMerge(ck_variant, ck_text, ck_max)) > Len(ck_out)


\* ---- the subdivision of a paragraph without a sentence boundary

\* the non-blank lines of a paragraph
LinesOf(paragraph) == StrippedUnits(Split(paragraph, <<NL>>))

\* the text is one paragraph, larger than max_tokens, with no sentence
\* boundary in it, of several lines each of which fits max_tokens
OversizedParagraphOfLines(variant, text, max_tokens) ==
    LET para == IF variant = "kdp" THEN text ELSE Strip(text)
    IN  /\ Find(text, ParaSep) = 0
        /\ Estimate(variant, para) > max_tokens
        /\ Len(SplitSentences(para)) <= 1
        /\ Len(LinesOf(para)) >= 2
        /\ \A k \in 1..Len(LinesOf(para)) : Estimate(variant, LinesOf(para)[k]) <= max_tokens

\* C23: a paragraph larger than max_tokens that has no sentence boundary but
\* several lines, each of which fits max_tokens, is divided at its line breaks
\* into chunks every one of which fits max_tokens
C23_LineFallback ==
    (ck_pc = "done" /\ OversizedParagraphOfLines(ck_variant, ck_text, ck_max)) =>
        \A i \in 1..Len(ck_out) : Estimate(ck_variant, ck_out[i]) <= ck_max

\* ---------------------------------------- the marker extraction as a machine

MaxSegs == 4         \* a marked text is made of at most this many pieces

\* the pieces of a marked text: plain text, spacing, a marker with an explanation,
\* the same with spacing between its two tags, a marker whose explanation is
\* empty, a marker whose explanation is only whitespace
SegKinds == {"text", "space", "note", "spaced", "empty", "blank"}

\* pieces that break the protocol: a reference tag without its content tag (in
\* processor.py: a marker without its explanation), a content tag on its own, a
\* tag of an unknown kind, a reference tag that is not closed
MalformedKinds == {"ref", "content", "unknown", "open"}

ValidKinds == {"note", "spaced"}
EmptyKinds == {"empty", "blank"}

\* the explanation of the marker at piece i
Explanation(i) == <<"e", Digit(i)>>

\* piece i as correcaoKDP's protocol writes it
RenderPair(kind, i) ==
    CASE kind = "text"   -> <<"x">>
      [] kind = "space"  -> <<SP>>
      [] kind = "note"   -> <<NOTA_NOME, "t", "]", CONTEUDO_NOTA>> \o Explanation(i) \o <<"]">>
      [] kind = "spaced" -> <<NOTA_TERMO, "t", "]", SP, NL, CONTEUDO_NOTA, SP>>
                            \o Explanation(i) \o <<"]">>
      [] kind = "empty"  -> <<NOTA_NOME, "t", "]", CONTEUDO_NOTA, "]">>
      [] kind = "blank"  -> <<NOTA_TERMO, "t", "]", CONTEUDO_NOTA, SP, "]">>
      [] kind = "ref"     -> <<NOTA_NOME, "t", "]">>
      [] kind = "content" -> <<CONTEUDO_NOTA, "e", "]">>
      [] kind = "unknown" -> <<"[NOTA_XYZ:", "t", "]", CONTEUDO_NOTA, "e", "]">>
      [] kind = "open"    -> <<NOTA_NOME, "t">>

\* piece i as processor.py's protocol writes it
RenderNota(kind, i) ==
    CASE kind = "text"   -> <<"x">>
      [] kind = "space"  -> <<SP>>
      [] kind = "note"   -> <<NOTA, "t", "|">> \o Explanation(i) \o <<"]">>
      [] kind = "spaced" -> <<NOTA, "t", SP, "|", SP>> \o Explanation(i) \o <<"]">>
      [] kind = "empty"  -> <<NOTA, "t", "|", "]">>
      [] kind = "blank"  -> <<NOTA, "t", "|", SP, "]">>
      [] kind = "ref"     -> <<NOTA, "t", "]">>
      [] kind = "content" -> <<CONTEUDO_NOTA, "e", "]">>
      [] kind = "unknown" -> <<"[NOTE:", "t", "|", "e", "]">>
      [] kind = "open"    -> <<NOTA, "t">>

RECURSIVE MarkedFrom(_, _, _)
MarkedFrom(variant, segs, i) ==
    IF i > Len(segs) THEN <<>>
    ELSE (IF variant = "kdp" THEN RenderPair(segs[i], i) ELSE RenderNota(segs[i], i))
         \o MarkedFrom(variant, segs, i + 1)

\* the marked text the annotation stage hands to the extraction
MarkedText(variant, segs) == MarkedFrom(variant, segs, 1)

SegLists == UNION {[1..n -> SegKinds] : n \in 0..MaxSegs}

InitMarker ==
    /\ mk_pc = "input"
    /\ mk_variant = "none"
    /\ mk_segs \in SegLists
    /\ mk_clean = <<>>
    /\ mk_notes = <<>>
    /\ ChunkIdle /\ RetryIdle /\ StageIdle /\ BookIdle /\ CacheIdle /\ DocxIdle /\ PassIdle /\ MainIdle

\* correcaoKDP.run_final_txt_generation processes the marked text
ExtractKDP ==
    /\ mk_pc = "input"
    /\ LET r == run_final_txt_generation(MarkedText("kdp", mk_segs))
       IN  /\ mk_clean' = r.clean
           /\ mk_notes' = r.notes
    /\ mk_pc' = "done"
    /\ mk_variant' = "kdp"
    /\ UNCHANGED mk_segs
    /\ UNCHANGED <<chunkVars, retryVars, stageVars, bookVars, cacheVars, docxVars, passVars, mainVars>>

\* processor.extract_footnotes processes the marked text
ExtractProcessor ==
    /\ mk_pc = "input"
    /\ LET r == extract_footnotes(MarkedText("processor", mk_segs))
       IN  /\ mk_clean' = r.clean
           /\ mk_notes' = [k \in 1..Len(r.notes) |->
                              Str(r.notes[k].number) \o <<".", SP>> \o r.notes[k].explanation]
    /\ mk_pc' = "done"
    /\ mk_variant' = "processor"
    /\ UNCHANGED mk_segs
    /\ UNCHANGED <<chunkVars, retryVars, stageVars, bookVars, cacheVars, docxVars, passVars, mainVars>>

NextMarker == ExtractKDP \/ ExtractProcessor

SpecMarker == InitMarker /\ [][NextMarker]_vars

\* ---- what the marker protocol asks for, piece by piece

\* the number of markers with an explanation among the first i pieces
ValidBefore(segs, i) == Cardinality({j \in 1..i : segs[j] \in ValidKinds})

RECURSIVE ExpectedCleanFrom(_, _)
ExpectedCleanFrom(segs, i) ==
    IF i > Len(segs) THEN <<>>
    ELSE (CASE segs[i] = "text"  -> <<"x">>
            [] segs[i] = "space" -> <<SP>>
            [] segs[i] \in ValidKinds -> <<"[">> \o Str(ValidBefore(segs, i)) \o <<"]">>
            [] segs[i] \in EmptyKinds -> <<>>)
         \o ExpectedCleanFrom(segs, i + 1)

RECURSIVE ExpectedNotesFrom(_, _)
ExpectedNotesFrom(segs, i) ==
    IF i > Len(segs) THEN <<>>
    ELSE (IF segs[i] \in ValidKinds
          THEN << Str(ValidBefore(segs, i)) \o <<".", SP>> \o Explanation(i) >>
          ELSE <<>>)
         \o ExpectedNotesFrom(segs, i + 1)

\* C4: N markers with an explanation and M empty ones give exactly N footnotes,
\* numbered 1..N in document order; the k-th valid marker becomes [k] and the
\* empty ones are removed without a footnote and without using a number
C4_FootnoteRenumbering ==
    mk_pc = "done" =>
        /\ mk_clean = ExpectedCleanFrom(mk_segs, 1)
        /\ mk_notes = ExpectedNotesFrom(mk_segs, 1)

\* the same of correcaoKDP.run_final_txt_generation alone, which keeps it
FootnoteRenumberingKDP ==
    (mk_pc = "done" /\ mk_variant = "kdp") =>
        /\ mk_clean = ExpectedCleanFrom(mk_segs, 1)
        /\ mk_notes = ExpectedNotesFrom(mk_segs, 1)


\* ---- marked texts with malformed tags

MalformedLists == UNION {[1..n -> {"text", "space", "note"} \cup MalformedKinds] : n \in 0..MaxSegs}

InitMalformed ==
    /\ mk_pc = "input"
    /\ mk_variant = "none"
    /\ mk_segs \in MalformedLists
    /\ mk_clean = <<>>
    /\ mk_notes = <<>>
    /\ ChunkIdle /\ RetryIdle /\ StageIdle /\ BookIdle /\ CacheIdle /\ DocxIdle /\ PassIdle /\ MainIdle

SpecMalformed == InitMalformed /\ [][NextMarker]_vars

\* no reference tag of the pieces is followed, over spacing at most, by a
\* content tag on its own: the only pairs of the text are its "note" pieces
NoAccidentalPair(segs) ==
    \A i, j \in 1..Len(segs) :
        (i < j /\ segs[i] \in {"ref", "open"} /\ segs[j] = "content")
            => \E k \in (i + 1)..(j - 1) : segs[k] # "space"

\* the clean text when every malformed piece stays as it is
RECURSIVE CleanKeepingMalformed(_, _, _)
CleanKeepingMalformed(variant, segs, i) ==
    IF i > Len(segs) THEN <<>>
    ELSE (IF segs[i] \in ValidKinds
          THEN <<"[">> \o Str(ValidBefore(segs, i)) \o <<"]">>
          ELSE IF variant = "kdp" THEN RenderPair(segs[i], i) ELSE RenderNota(segs[i], i))
         \o CleanKeepingMalformed(variant, segs, i + 1)

\* C24: a text without a well-formed pair comes back unchanged with no
\* footnote, and in a text that has pairs and malformed tags the pairs are
\* numbered and every malformed tag stays where it is, as it is
C24_MalformedPassThrough ==
    (mk_pc = "done" /\ NoAccidentalPair(mk_segs)) =>
        /\ mk_clean = CleanKeepingMalformed(mk_variant, mk_segs, 1)
        /\ mk_notes = ExpectedNotesFrom(mk_segs, 1)

\* the part of C24 about texts without any pair
MalformedOnlyUnchanged ==
    (mk_pc = "done" /\ NoAccidentalPair(mk_segs) /\ \A i \in 1..Len(mk_segs) : mk_segs[i] # "note") =>
        /\ mk_clean = MarkedText(mk_variant, mk_segs)
        /\ mk_notes = <<>>



\* ---- marked texts in which a pair without an explanation stands between tags

ResidueLists == UNION {[1..n -> {"text", "note", "empty", "ref", "content"}] : n \in 0..MaxSegs}

InitResidue ==
    /\ mk_pc = "input"
    /\ mk_variant = "none"
    /\ mk_segs \in ResidueLists
    /\ mk_clean = <<>>
    /\ mk_notes = <<>>
    /\ ChunkIdle /\ RetryIdle /\ StageIdle /\ BookIdle /\ CacheIdle /\ DocxIdle /\ PassIdle /\ MainIdle

SpecResidue == InitResidue /\ [][NextMarker]_vars

\* the extraction of the given variant
Extraction(variant, text) ==
    IF variant = "kdp" THEN run_final_txt_generation(text) ELSE extract_footnotes(text)

\* C28: the clean text the extraction returns holds no well-formed pair any
\* more: the extraction applied to it returns it unchanged and finds no note
C28_ExtractionIdempotent ==
    mk_pc = "done" =>
        LET again == Extraction(mk_variant, mk_clean)
        IN  /\ again.clean = mk_clean
            /\ again.notes = <<>>

\* the same of processor.extract_footnotes alone, which keeps it
ExtractionIdempotentProcessor ==
    (mk_pc = "done" /\ mk_variant = "processor") =>
        LET again == extract_footnotes(mk_clean)
        IN  /\ again.clean = mk_clean
            /\ again.notes = <<>>

\* ------------------------------------------- one transform call, with retry

MAX_RETRIES == 5       \* settings.MAX_RETRIES; _call_gemini_api.max_retries
RETRY_BASE_WAIT == 5   \* settings.RETRY_BASE_WAIT; _call_gemini_api.base_wait_time
QUOTA_BASE_WAIT == 15  \* _call_gemini_api: base_wait_time = max(15, base_wait_time)
JITTER_DIVISOR == 255  \* _call_gemini_api: os.urandom(1)[0] / 255.0

\* the values of os.urandom(1)[0] looked at: both ends and one in between
URandomBytes == {0, 128, 255}

\* the exceptions an attempt can end with: one whose text holds
\* "RESOURCE_EXHAUSTED" or "429", and any other
RaisedErrors == {"quota_error", "other_error"}

\* what the external service answers with
ServiceTexts == { <<>>, <<SP>>, <<"a">>, <<"a", SP>> }

LongChunkWords == 21   \* a chunk of so many words of five letters: over 100 characters

\* the chunks a call is made for: a short one and a long one
RetryChunks == { <<"a">>, [i \in 1..LongChunkWords |-> "Hello"] }

\* mutant: an answer that looks too short is not returned but tried again
GeminiAnswerStrict(result_text, chunk_for_log) ==
    LET short == /\ 10 * TextLen(result_text) < TextLen(chunk_for_log)
                 /\ TextLen(chunk_for_log) > 100
    IN  [returns |-> result_text # <<>> /\ ~short, warns |-> result_text # <<>> /\ short]

\* _call_gemini_api, what is done with the text taken from the answer:
\* if result_text: (warn when len(result_text) < len(chunk_for_log) * 0.1 and
\* len(chunk_for_log) > 100), return result_text; else: log and go on.
\* The lengths used here stay away from the rounding of the product by 0.1.
GeminiAnswer(result_text, chunk_for_log) ==
    LET short == /\ 10 * TextLen(result_text) < TextLen(chunk_for_log)
                 /\ TextLen(chunk_for_log) > 100
    IN  [returns |-> result_text # <<>>, warns |-> result_text # <<>> /\ short]

\* how one attempt of _call_gemini_api can end ("no_text" stands for every
\* answer no text can be taken from, "other_error" for every exception that
\* does not signal a quota: the code treats them alike)
GeminiOutcomes ==
    {"text", "blocked", "no_candidates", "no_text", "quota_error", "other_error"}

\* the outcomes after which _call_gemini_api tries again
GeminiRetried == GeminiOutcomes \ {"text", "blocked"}

RECURSIVE Pow2(_)
Pow2(n) == IF n = 0 THEN 1 ELSE 2 * Pow2(n - 1)

\* mutant: the loop runs once more than max_retries allows
InRangeInclusive(attempt, max_retries) == attempt <= max_retries

\* for attempt in range(max_retries): the loop goes on
InRange(attempt, max_retries) == attempt < max_retries

\* wait_time = base_wait_time * (2 ** attempt) + (os.urandom(1)[0] / 255.0 *
\* base_wait_time), in 255ths of a second; byte is what os.urandom returned
WaitTime(base_wait_time, attempt, byte) ==
    base_wait_time * Pow2(attempt) * JITTER_DIVISOR + byte * base_wait_time

\* if attempt < max_retries - 1: time.sleep(wait)
SleepsAfter(attempt, max_retries) == attempt < max_retries - 1

InitRetry ==
    /\ rt_pc = "try"
    /\ rt_variant \in {"processor", "kdp"}
    /\ rt_max \in IF rt_variant = "kdp" THEN {MAX_RETRIES} ELSE 0..MAX_RETRIES
    /\ rt_attempt = 0
    /\ rt_base = RETRY_BASE_WAIT
    /\ rt_log = <<>>
    /\ rt_waits = <<>>
    /\ rt_result = None
    /\ rt_chunk \in RetryChunks
    /\ rt_answer = None
    /\ rt_warned = 0
    /\ ChunkIdle /\ MarkerIdle /\ StageIdle /\ BookIdle /\ CacheIdle /\ DocxIdle /\ PassIdle /\ MainIdle

\* ModelClient.generate: one pass of the loop, the backend returns a text
GenerateSuccess ==
    /\ rt_pc = "try" /\ rt_variant = "processor"
    /\ InRange(rt_attempt, rt_max)
    /\ \E t \in ServiceTexts :
           /\ rt_answer' = Some(t)
           /\ rt_result' = Some(Strip(t))
           /\ rt_log' = Append(rt_log, "text")
    /\ rt_pc' = "returned"
    /\ UNCHANGED <<rt_variant, rt_max, rt_attempt, rt_base, rt_waits, rt_chunk, rt_warned>>
    /\ UNCHANGED <<chunkVars, markerVars, stageVars, bookVars, cacheVars, docxVars, passVars, mainVars>>

\* ModelClient.generate: one pass of the loop, the backend raises
GenerateFailure ==
    /\ rt_pc = "try" /\ rt_variant = "processor"
    /\ InRange(rt_attempt, rt_max)
    /\ \E e \in RaisedErrors : rt_log' = Append(rt_log, e)
    /\ rt_answer' = None
    /\ rt_waits' = IF SleepsAfter(rt_attempt, rt_max)
                   THEN Append(rt_waits, WaitTime(RETRY_BASE_WAIT, rt_attempt, 0))
                   ELSE rt_waits
    /\ rt_attempt' = rt_attempt + 1
    /\ UNCHANGED <<rt_pc, rt_variant, rt_max, rt_base, rt_result, rt_chunk, rt_warned>>
    /\ UNCHANGED <<chunkVars, markerVars, stageVars, bookVars, cacheVars, docxVars, passVars, mainVars>>

\* ModelClient.generate: the loop is over, return None
GenerateExhausted ==
    /\ rt_pc = "try" /\ rt_variant = "processor"
    /\ ~InRange(rt_attempt, rt_max)
    /\ rt_result' = None
    /\ rt_pc' = "returned"
    /\ UNCHANGED <<rt_variant, rt_max, rt_attempt, rt_base, rt_log, rt_waits,
                   rt_chunk, rt_answer, rt_warned>>
    /\ UNCHANGED <<chunkVars, markerVars, stageVars, bookVars, cacheVars, docxVars, passVars, mainVars>>

\* _call_gemini_api: one pass of the loop that returns (a text, or None for a
\* blocked prompt)
GeminiReturn ==
    /\ rt_pc = "try" /\ rt_variant = "kdp"
    /\ InRange(rt_attempt, rt_max)
    /\ \/ \E t \in ServiceTexts :
             LET a == GeminiAnswer(Strip(t), rt_chunk)
             IN  /\ a.returns
                 /\ rt_answer' = Some(t)
                 /\ rt_warned' = rt_warned + (IF a.warns THEN 1 ELSE 0)
                 /\ rt_result' = Some(Strip(t))
                 /\ rt_log' = Append(rt_log, "text")
       \/ /\ rt_result' = None
          /\ rt_log' = Append(rt_log, "blocked")
          /\ rt_answer' = None
          /\ UNCHANGED rt_warned
    /\ rt_pc' = "returned"
    /\ UNCHANGED <<rt_variant, rt_max, rt_attempt, rt_base, rt_waits, rt_chunk>>
    /\ UNCHANGED <<chunkVars, markerVars, stageVars, bookVars, cacheVars, docxVars, passVars, mainVars>>

\* _call_gemini_api: one pass of the loop that fails: no candidate, no usable
\* text, or an exception; it sleeps and goes on, or returns None after the last
GeminiFailure ==
    /\ rt_pc = "try" /\ rt_variant = "kdp"
    /\ InRange(rt_attempt, rt_max)
    /\ \E o \in GeminiRetried, byte \in URandomBytes :
          LET base == IF o = "quota_error"
                      THEN (IF rt_base > QUOTA_BASE_WAIT THEN rt_base ELSE QUOTA_BASE_WAIT)
                      ELSE rt_base
          IN  /\ rt_log' = Append(rt_log, o)
              /\ IF o = "no_text"
                 THEN \E t \in ServiceTexts :
                          /\ ~GeminiAnswer(Strip(t), rt_chunk).returns
                          /\ rt_answer' = Some(t)
                 ELSE rt_answer' = None
              /\ rt_base' = base
              /\ IF SleepsAfter(rt_attempt, rt_max)
                 THEN /\ rt_waits' = Append(rt_waits, WaitTime(base, rt_attempt, byte))
                      /\ rt_attempt' = rt_attempt + 1
                      /\ UNCHANGED <<rt_pc, rt_result>>
                 ELSE /\ rt_result' = None
                      /\ rt_pc' = "returned"
                      /\ UNCHANGED <<rt_waits, rt_attempt>>
    /\ UNCHANGED <<rt_variant, rt_max, rt_chunk, rt_warned>>
    /\ UNCHANGED <<chunkVars, markerVars, stageVars, bookVars, cacheVars, docxVars, passVars, mainVars>>

NextRetry ==
    \/ GenerateSuccess \/ GenerateFailure \/ GenerateExhausted
    \/ GeminiReturn \/ GeminiFailure

SpecRetry == InitRetry /\ [][NextRetry]_vars

\* C9: a transform call makes at most max_retries attempts, none after the first
\* that succeeds, and when all of them fail it returns None to its caller
C9_BoundedRetry ==
    /\ rt_pc \in {"try", "returned"}
    /\ Len(rt_log) <= rt_max
    /\ \A i \in 1..Len(rt_log) : rt_log[i] = "text" => i = Len(rt_log)
    /\ (rt_pc = "returned" /\ \A i \in 1..Len(rt_log) : rt_log[i] # "text")
           => rt_result = None
    /\ (rt_pc = "try") => Len(rt_log) = rt_attempt

C9_Witness ==
    /\ rt_pc = "returned"
    /\ rt_max = MAX_RETRIES
    /\ Len(rt_log) = MAX_RETRIES
    /\ \A i \in 1..Len(rt_log) : rt_log[i] # "text"
    /\ rt_result = None

\* the base wait the schedule asks for after failed attempt k (0-based) of the
\* call: 15 or more once an attempt up to k failed on a quota, 5 before
BaseInForce(k) ==
    IF \E j \in 1..(k + 1) : rt_log[j] = "quota_error"
    THEN QUOTA_BASE_WAIT ELSE RETRY_BASE_WAIT

\* the attempts of the call that failed and were not the last one allowed
FailedBeforeLast ==
    { j \in 1..Len(rt_log) : rt_log[j] \in GeminiRetried /\ j < rt_max }

\* waits are kept in 255ths of a second
WaitWithin(w, k, b) ==
    /\ w >= b * Pow2(k) * JITTER_DIVISOR
    /\ w <= (b * Pow2(k) + b) * JITTER_DIVISOR

\* C26: the wait that follows failed attempt k is base * 2^k plus a jitter
\* between 0 and base, where base is 5 until a failure signals a quota and at
\* least 15 from then on; there is one wait per failed attempt but the last
C26_BackoffSchedule ==
    /\ Len(rt_waits) = Cardinality(FailedBeforeLast)
    /\ \A i \in 1..Len(rt_waits) : WaitWithin(rt_waits[i], i - 1, BaseInForce(i - 1))

\* the schedule of _call_gemini_api alone
BackoffScheduleKDP ==
    rt_variant = "kdp" =>
        /\ C26_BackoffSchedule
        /\ rt_base = (IF Len(rt_log) = 0 THEN RETRY_BASE_WAIT ELSE BaseInForce(Len(rt_log) - 1))

\* the base wait is never lowered during a call
BaseNeverLowered == [][rt_base' >= rt_base]_vars

\* ------------------------------------------------------ the stage orchestrator

MaxParallel == 2       \* PARALLEL_CHUNKS, the batch size, ranges over 1..MaxParallel
MaxChunks == 3         \* a stage is handed at most this many chunks

AI_FAILURE_MARKER_KDP == "*** FALHA NA IA - TEXTO ORIGINAL ABAIXO ***"

\* the chunks a stage is handed: one paragraph, another one, and a paragraph
\* followed by a page break
StageChunks == { <<"a">>, <<"b">>, <<"a", NL, NL, PAGE_BREAK_MARKER>> }

ChunkLists == UNION {[1..n -> StageChunks] : n \in 0..MaxChunks}

\* the text the external service answers a chunk with: the corrected chunk in
\* the correction stage, the chunk with markers in the annotation stage
Reply(mode, chunk) ==
    IF mode = "correction" THEN chunk \o <<"'">> ELSE chunk \o <<"*">>

\* what client.generate returns: None after the last retry, or the backend's
\* text, which may be empty; _call_gemini_api returns None or a non-empty text
ClientResults(variant, mode, chunk) ==
    IF variant = "processor"
    THEN {None, Some(<<>>), Some(Reply(mode, chunk))}
    ELSE {None, Some(Reply(mode, chunk))}

\* Python truthiness of an Optional[str]: if cached: / if result:
Truthy(opt) == ~opt.none /\ opt.text # <<>>

\* the check of _call_gemini_api for an answer far shorter than the chunk
LooksShort(result_text, chunk_for_log) ==
    /\ 10 * TextLen(result_text) < TextLen(chunk_for_log)
    /\ TextLen(chunk_for_log) > 100

HashFolded(text) ==
    CASE text = <<"a">> -> <<"ca978112ca1bbdcafac231b39a23dc4d">>
      [] text = <<"b">> -> <<"3e23e8160039594a33894f6564e1b134">>
      [] text = <<"A">> -> <<"ca978112ca1bbdcafac231b39a23dc4d">>
      [] text = <<"a", SP>> -> <<"6583dcd6056fd32aadd0d2d0be920de9">>
      [] text = <<"a", NL, NL, PAGE_BREAK_MARKER>> -> <<"d9b61213d9d194c81f457ebc424b47fb">>
      [] OTHER -> <<"sha256">> \o text

\* hashlib.sha256(text.encode()).hexdigest()[:32], a key of 128 bits. The
\* digests of the texts the cache is examined with are the real ones; the
\* digest of any other text is written as the text under a tag, which takes
\* for granted that no two texts of a run have the same truncated digest.
_hash(text) ==
    CASE text = <<"a">> -> <<"ca978112ca1bbdcafac231b39a23dc4d">>
      [] text = <<"b">> -> <<"3e23e8160039594a33894f6564e1b134">>
      [] text = <<"A">> -> <<"559aead08264d5795d3909718cdd05ab">>
      [] text = <<"a", SP>> -> <<"6583dcd6056fd32aadd0d2d0be920de9">>
      [] text = <<"a", NL, NL, PAGE_BREAK_MARKER>> -> <<"d9b61213d9d194c81f457ebc424b47fb">>
      [] OTHER -> <<"sha256">> \o text

\* mutant: every lookup misses
CacheGetMiss(cache, mode, chunk) == None

\* CorrectionCache: one table per stage, one row per hash of the chunk text;
\* SELECT ... WHERE hash = ?, row[0] if row else None
CacheGet(cache, mode, chunk) ==
    IF \E row \in cache : row.mode = mode /\ row.key = _hash(chunk)
    THEN Some((CHOOSE row \in cache : row.mode = mode /\ row.key = _hash(chunk)).value)
    ELSE None

\* mutant: the row is never written
CacheSetNothing(cache, mode, chunk, value) == cache

\* INSERT OR REPLACE
CacheSet(cache, mode, chunk, value) ==
    {row \in cache : ~(row.mode = mode /\ row.key = _hash(chunk))}
        \cup {[mode |-> mode, key |-> _hash(chunk), value |-> value]}

\* mutant: the fallback of either stage is the bare chunk
FallbackUnmarked(mode, chunk) == chunk

\* mutant: the fallback is the marker alone
FallbackMarkerOnly(mode, chunk) == <<AI_FAILURE_MARKER>>

\* process_correction: f"{AI_FAILURE_MARKER}\n\n{chunk}"; process_footnotes: chunk
Fallback(mode, chunk) ==
    IF mode = "correction" THEN <<AI_FAILURE_MARKER>> \o ParaSep \o chunk ELSE chunk

\* what a task returns once client.generate has returned result
TaskOutput(mode, chunk, result) ==
    IF Truthy(result) THEN result.text ELSE Fallback(mode, chunk)

\* mutant: what the task returns is written to the cache, fallback or not
CacheAfterTaskAlways(cache, mode, chunk, result) ==
    CacheSet(cache, mode, chunk, TaskOutput(mode, chunk, result))

\* if result: cache.set_correction(chunk, result, client.model_name), the
\* same with set_footnotes; nothing is written on the else branch
CacheAfterTask(cache, mode, chunk, result) ==
    IF Truthy(result) THEN CacheSet(cache, mode, chunk, result.text) ELSE cache

\* mutant: the position inside the batch
ResultIndexInBatch(i, j) == j

\* idx = i + j (i the 0-based start of the batch, j the 1-based place in it)
ResultIndex(i, j) == i + j

\* sqlite3.connect / conn.execute raise when the storage cannot be read
CacheReadable(storage) == storage # "down"

\* ... or cannot be written
CacheWritable(storage) == storage = "ok"

\* mutant: every chunk that is left goes into one batch
BatchLenAll(n, i, batch_size) == n - i

\* len(chunks[i:i+batch_size])
BatchLen(n, i, batch_size) == IF n - i < batch_size THEN n - i ELSE batch_size

\* the task of each chunk of the batch starting after position i, after its
\* first step: the cache lookup, which raises when the storage cannot be read,
\* and on a miss the call handed to the executor
BatchTasks(storage, cache, mode, chunks, i, batch_size) ==
    [j \in 1..BatchLen(Len(chunks), i, batch_size) |->
        LET chunk == chunks[i + j]
            cached == CacheGet(cache, mode, chunk)
        IN  [idx |-> ResultIndex(i, j), chunk |-> chunk,
             pc |-> IF ~CacheReadable(storage) THEN "raised"
                    ELSE IF Truthy(cached) THEN "done" ELSE "calling",
             out |-> IF CacheReadable(storage) /\ Truthy(cached) THEN cached.text ELSE <<>>]]

\* for result in batch_results: if isinstance(result, Exception): log it;
\* else: idx, text = result; results[idx] = text
RECURSIVE StoreResults(_, _, _)
StoreResults(results, tasks, j) ==
    IF j > Len(tasks) THEN results
    ELSE StoreResults(IF tasks[j].pc = "raised" THEN results
                      ELSE [results EXCEPT ![tasks[j].idx] = Some(tasks[j].out)],
                      tasks, j + 1)

\* for i, r in enumerate(results): if r is None: results[i] = chunks[i]
FillNone(results, chunks) ==
    [k \in 1..Len(results) |-> IF results[k] = None THEN Some(chunks[k]) ELSE results[k]]

\* text.replace(PAGE_BREAK_MARKER, "\n\n")
RECURSIVE ReplacePageBreaks(_)
ReplacePageBreaks(s) ==
    IF s = <<>> THEN <<>>
    ELSE (IF Head(s) = PAGE_BREAK_MARKER THEN ParaSep ELSE <<Head(s)>>)
             \o ReplacePageBreaks(Tail(s))

\* apply_formatting_pass1, the text it collects for the next pass
apply_formatting_pass1(formatted_chunk_text, corrected_text_list) ==
    IF IsBlank(formatted_chunk_text) THEN corrected_text_list
    ELSE LET plain_text_for_list == Strip(ReplacePageBreaks(formatted_chunk_text))
         IN  IF plain_text_for_list # <<>>
             THEN Append(corrected_text_list, Some(plain_text_for_list))
             ELSE corrected_text_list

\* mutant: a list of at most one chunk is reported as a failure
StageFailsOnShort(variant, mode, chunks) == Len(chunks) <= 1

\* process_book: if not chunks: return False, before the correction stage only;
\* run_correction_pass, run_footnote_id_pass: if not text_chunks: return (False, None)
StageFails(variant, mode, chunks) ==
    /\ chunks = <<>>
    /\ (variant = "kdp" \/ mode = "correction")

\* run_correction_pass: fallback_text = f"{AI_FAILURE_MARKER}\n\n{chunk}"
FallbackKDP(chunk) == <<AI_FAILURE_MARKER_KDP>> \o ParaSep \o chunk

InitStage ==
    /\ st_pc = "start"
    /\ st_variant \in {"processor", "kdp"}
    /\ st_mode \in {"correction", "footnotes"}
    /\ st_parallel \in IF st_variant = "processor" THEN 1..MaxParallel ELSE {1}
    /\ st_chunks \in ChunkLists
    /\ st_run = 1
    /\ st_i = 0
    /\ st_tasks = <<>>
    /\ st_results = <<>>
    /\ st_cache = {}
    /\ st_calls = {}
    /\ st_failed = {}
    /\ st_stored = {}
    /\ st_reordered = FALSE
    /\ st_storage \in IF st_variant = "processor" THEN {"ok", "readonly", "down"} ELSE {"ok"}
    /\ st_succeeded = {}
    /\ st_crashed = FALSE
    /\ ChunkIdle /\ MarkerIdle /\ RetryIdle /\ BookIdle /\ CacheIdle /\ DocxIdle /\ PassIdle /\ MainIdle

\* the caller's check of the chunk list: no chunks, the stage is reported
\* as failed before any call
StageAbort ==
    /\ st_pc = "start"
    /\ StageFails(st_variant, st_mode, st_chunks)
    /\ st_pc' = "failed"
    /\ UNCHANGED <<st_variant, st_mode, st_parallel, st_chunks, st_run, st_i, st_tasks,
                   st_results, st_cache, st_calls, st_failed, st_stored, st_reordered>>
    /\ UNCHANGED <<st_storage, st_succeeded, st_crashed>>
    /\ UNCHANGED <<chunkVars, markerVars, retryVars, bookVars, cacheVars, docxVars, passVars, mainVars>>

\* process_chunks_parallel: results = [None] * len(chunks);
\* run_correction_pass, run_footnote_id_pass: the list starts empty
StageStart ==
    /\ st_pc = "start"
    /\ ~StageFails(st_variant, st_mode, st_chunks)
    /\ st_pc' = "loop"
    /\ st_i' = 0
    /\ st_results' = IF st_variant = "processor"
                     THEN [k \in 1..Len(st_chunks) |-> None] ELSE <<>>
    /\ UNCHANGED <<st_variant, st_mode, st_parallel, st_chunks, st_run, st_tasks,
                   st_cache, st_calls, st_failed, st_stored, st_reordered>>
    /\ UNCHANGED <<st_storage, st_succeeded, st_crashed>>
    /\ UNCHANGED <<chunkVars, markerVars, retryVars, bookVars, cacheVars, docxVars, passVars, mainVars>>

\* process_chunks_parallel: the tasks of one batch are created and each runs
\* up to its first await (the event loop runs them one after the other before
\* any call handed to the executor can complete)
BatchStart ==
    /\ st_pc = "loop" /\ st_variant = "processor"
    /\ st_i < Len(st_chunks)
    /\ st_tasks' = BatchTasks(st_storage, st_cache, st_mode, st_chunks, st_i, st_parallel)
    /\ st_calls' = st_calls \cup
           {st_tasks'[j].idx : j \in {j \in 1..Len(st_tasks') : st_tasks'[j].pc = "calling"}}
    /\ st_pc' = "gather"
    /\ UNCHANGED <<st_variant, st_mode, st_parallel, st_chunks, st_run, st_i,
                   st_results, st_cache, st_failed, st_stored, st_reordered>>
    /\ UNCHANGED <<st_storage, st_succeeded, st_crashed>>
    /\ UNCHANGED <<chunkVars, markerVars, retryVars, bookVars, cacheVars, docxVars, passVars, mainVars>>

\* process_correction / process_footnotes after the await: client.generate
\* has returned for one task of the batch, any of those still calling
TaskFinish ==
    /\ st_pc = "gather"
    /\ \E j \in 1..Len(st_tasks) :
        /\ st_tasks[j].pc = "calling"
        /\ \E result \in ClientResults(st_variant, st_mode, st_tasks[j].chunk) :
            /\ st_tasks' = IF Truthy(result) /\ ~CacheWritable(st_storage)
                           THEN [st_tasks EXCEPT ![j].pc = "raised"]
                           ELSE [st_tasks EXCEPT
                                    ![j].pc = "done",
                                    ![j].out = TaskOutput(st_mode, st_tasks[j].chunk, result)]
            /\ st_cache' = IF CacheWritable(st_storage)
                           THEN CacheAfterTask(st_cache, st_mode, st_tasks[j].chunk, result)
                           ELSE st_cache
            /\ st_failed' = IF result = None
                            THEN st_failed \cup {st_tasks[j].idx} ELSE st_failed
            /\ st_stored' = IF Truthy(result) /\ CacheWritable(st_storage) /\ st_run = 1
                            THEN st_stored \cup {st_tasks[j].chunk} ELSE st_stored
        /\ st_reordered' = (st_reordered \/ \E k \in 1..(j - 1) : st_tasks[k].pc = "calling")
    /\ UNCHANGED <<st_pc, st_variant, st_mode, st_parallel, st_chunks, st_run, st_i,
                   st_results, st_calls>>
    /\ UNCHANGED <<st_storage, st_succeeded, st_crashed>>
    /\ UNCHANGED <<chunkVars, markerVars, retryVars, bookVars, cacheVars, docxVars, passVars, mainVars>>

\* asyncio.gather has every task's result: they are stored and the loop moves
\* to the next batch
GatherDone ==
    /\ st_pc = "gather"
    /\ \A j \in 1..Len(st_tasks) : st_tasks[j].pc \in {"done", "raised"}
    /\ st_results' = StoreResults(st_results, st_tasks, 1)
    /\ st_i' = st_i + st_parallel
    /\ st_tasks' = <<>>
    /\ st_pc' = "loop"
    /\ UNCHANGED <<st_variant, st_mode, st_parallel, st_chunks, st_run,
                   st_cache, st_calls, st_failed, st_stored, st_reordered>>
    /\ UNCHANGED <<st_storage, st_succeeded, st_crashed>>
    /\ UNCHANGED <<chunkVars, markerVars, retryVars, bookVars, cacheVars, docxVars, passVars, mainVars>>

\* process_chunks_parallel: the loop is over, None entries are filled with
\* the chunk, the list is returned
StageReturn ==
    /\ st_pc = "loop" /\ st_variant = "processor"
    /\ st_i >= Len(st_chunks)
    /\ st_results' = FillNone(st_results, st_chunks)
    /\ st_pc' = "returned"
    /\ UNCHANGED <<st_variant, st_mode, st_parallel, st_chunks, st_run, st_i, st_tasks,
                   st_cache, st_calls, st_failed, st_stored, st_reordered>>
    /\ UNCHANGED <<st_storage, st_succeeded, st_crashed>>
    /\ UNCHANGED <<chunkVars, markerVars, retryVars, bookVars, cacheVars, docxVars, passVars, mainVars>>

\* run_correction_pass: one pass of the loop over the chunks
CorrectionPassStep ==
    /\ st_pc = "loop" /\ st_variant = "kdp" /\ st_mode = "correction"
    /\ st_i < Len(st_chunks)
    /\ LET chunk == st_chunks[st_i + 1] IN
       \E corrected_chunk \in ClientResults(st_variant, st_mode, chunk) :
        /\ st_results' = IF corrected_chunk # None
                         THEN apply_formatting_pass1(corrected_chunk.text, st_results)
                         ELSE apply_formatting_pass1(FallbackKDP(chunk), st_results)
        /\ st_failed' = IF corrected_chunk = None
                        THEN st_failed \cup {st_i + 1} ELSE st_failed
    /\ st_calls' = st_calls \cup {st_i + 1}
    /\ st_i' = st_i + 1
    /\ UNCHANGED <<st_pc, st_variant, st_mode, st_parallel, st_chunks, st_run, st_tasks,
                   st_cache, st_stored, st_reordered>>
    /\ UNCHANGED <<st_storage, st_succeeded, st_crashed>>
    /\ UNCHANGED <<chunkVars, markerVars, retryVars, bookVars, cacheVars, docxVars, passVars, mainVars>>

\* run_footnote_id_pass: one pass of the loop over the chunks
FootnotePassStep ==
    /\ st_pc = "loop" /\ st_variant = "kdp" /\ st_mode = "footnotes"
    /\ st_i < Len(st_chunks)
    /\ LET chunk == st_chunks[st_i + 1] IN
       \E marked_chunk \in ClientResults(st_variant, st_mode, chunk) :
        /\ st_results' = IF marked_chunk # None
                         THEN Append(st_results, marked_chunk)
                         ELSE Append(st_results, Some(chunk))
        /\ st_failed' = IF marked_chunk = None
                        THEN st_failed \cup {st_i + 1} ELSE st_failed
    /\ st_calls' = st_calls \cup {st_i + 1}
    /\ st_i' = st_i + 1
    /\ UNCHANGED <<st_pc, st_variant, st_mode, st_parallel, st_chunks, st_run, st_tasks,
                   st_cache, st_stored, st_reordered>>
    /\ UNCHANGED <<st_storage, st_succeeded, st_crashed>>
    /\ UNCHANGED <<chunkVars, markerVars, retryVars, bookVars, cacheVars, docxVars, passVars, mainVars>>

\* run_correction_pass, run_footnote_id_pass: the loop is over, (True, text)
PassReturn ==
    /\ st_pc = "loop" /\ st_variant = "kdp"
    /\ st_i >= Len(st_chunks)
    /\ st_pc' = "returned"
    /\ UNCHANGED <<st_variant, st_mode, st_parallel, st_chunks, st_run, st_i, st_tasks,
                   st_results, st_cache, st_calls, st_failed, st_stored, st_reordered>>
    /\ UNCHANGED <<st_storage, st_succeeded, st_crashed>>
    /\ UNCHANGED <<chunkVars, markerVars, retryVars, bookVars, cacheVars, docxVars, passVars, mainVars>>

\* the calls of the batch that are still with the executor
InFlight == {j \in 1..Len(st_tasks) : st_tasks[j].pc = "calling"}

\* the chunk texts whose call has come back with a text (rather than None) and
\* has been handled in this run
Succeeded ==
    {st_chunks[k] : k \in {c \in st_calls \ st_failed :
                              \A j \in InFlight : st_tasks[j].idx # c}}

\* the process dies during the first run (killed, power lost): what it held in
\* memory is gone (and with it the record of this run's calls), the rows
\* already committed to the cache file stay; some of
\* the calls in flight may have returned a text that no task got to handle
Crash ==
    /\ st_pc \in {"loop", "gather"} /\ st_variant = "processor" /\ st_run = 1
    /\ \E returned \in SUBSET InFlight :
           st_succeeded' = Succeeded \cup {st_tasks[j].chunk : j \in returned}
    /\ st_pc' = "crashed"
    /\ st_tasks' = <<>>
    /\ st_results' = <<>>
    /\ st_i' = 0
    /\ st_calls' = {}
    /\ st_failed' = {}
    /\ st_reordered' = FALSE
    /\ UNCHANGED <<st_variant, st_mode, st_parallel, st_chunks, st_run, st_cache,
                   st_stored, st_storage, st_crashed>>
    /\ UNCHANGED <<chunkVars, markerVars, retryVars, bookVars, cacheVars, docxVars, passVars, mainVars>>

\* main: KeyboardInterrupt during the first run. asyncio.run cancels the tasks
\* at their await, CancelledError leaves process_chunks_parallel and
\* process_book (whose handler is except Exception), main logs and returns 130;
\* in correcaoKDP.py the interrupt leaves the pass the same way. The list the
\* stage was filling is never returned.
Cancel ==
    /\ st_pc \in {"loop", "gather"} /\ st_run = 1
    /\ \E returned \in SUBSET InFlight :
           st_succeeded' = Succeeded \cup {st_tasks[j].chunk : j \in returned}
    /\ st_pc' = "cancelled"
    /\ st_tasks' = <<>>
    /\ st_results' = <<>>
    /\ st_calls' = {}
    /\ st_failed' = {}
    /\ st_reordered' = FALSE
    /\ UNCHANGED <<st_variant, st_mode, st_parallel, st_chunks, st_run, st_i, st_cache,
                   st_stored, st_storage, st_crashed>>
    /\ UNCHANGED <<chunkVars, markerVars, retryVars, bookVars, cacheVars, docxVars, passVars, mainVars>>

\* the same stage is run again on the same chunk list against the same cache
RunAgain ==
    /\ st_pc \in {"returned", "crashed"} /\ st_variant = "processor" /\ st_run = 1
    /\ st_crashed' = (st_pc = "crashed")
    /\ st_run' = 2
    /\ st_pc' = "start"
    /\ st_i' = 0
    /\ st_results' = <<>>
    /\ st_calls' = {}
    /\ st_failed' = {}
    /\ st_reordered' = FALSE
    /\ UNCHANGED <<st_variant, st_mode, st_parallel, st_chunks, st_tasks, st_cache, st_stored,
                   st_storage, st_succeeded>>
    /\ UNCHANGED <<chunkVars, markerVars, retryVars, bookVars, cacheVars, docxVars, passVars, mainVars>>

NextStage ==
    \/ StageAbort \/ StageStart \/ BatchStart \/ TaskFinish \/ GatherDone
    \/ StageReturn \/ CorrectionPassStep \/ FootnotePassStep \/ PassReturn
    \/ RunAgain

SpecStage == InitStage /\ [][NextStage]_vars

\* each call handed to the executor returns, each loop goes on
\* ... and a run may also be ended from outside
NextAbort == NextStage \/ Crash \/ Cancel

SpecAbort == InitStage /\ [][NextAbort]_vars

FairSpecStage == SpecStage /\ WF_vars(NextStage)


\* the positions of the chunk list the client was called for in this run that
\* hold the text of position p
CalledFor(p) == {q \in st_calls : st_chunks[q] = st_chunks[p]}

\* C27: in a run of process_chunks_parallel the client is called at most once
\* for each distinct chunk text, wherever and however often the text occurs
\* in the chunk list, the same batch included
C27_OneCallPerText ==
    st_variant = "processor" =>
        \A p \in st_calls : CalledFor(p) = {p}

\* the part of C27 that holds: a text the cache has a row for when a batch
\* starts is not sent to the service by that batch
CachedTextNotCalled ==
    [][(st_pc = "loop" /\ st_pc' = "gather") =>
          \A j \in 1..Len(st_tasks') :
              Truthy(CacheGet(st_cache, st_mode, st_tasks'[j].chunk))
                  => st_tasks'[j].pc # "calling"]_vars


\* the positions of the chunk list that hold a text no call of the first run
\* brought a non-empty answer for
FailedInFirstRun == {p \in 1..Len(st_chunks) : st_chunks[p] \notin st_stored}

\* C29: every row of the cache holds a non-empty text the client returned for
\* the chunk of its key, never a fallback output; and a chunk whose calls all
\* failed in the first run is sent to the service again in the second
C29_FallbacksNeverCached ==
    /\ \A row \in st_cache :
           /\ row.value # <<>>
           /\ row.mode = st_mode
           /\ \E k \in 1..Len(st_chunks) :
                  /\ row.key = _hash(st_chunks[k])
                  /\ Some(row.value) \in ClientResults(st_variant, st_mode, st_chunks[k])
                  /\ row.value # Fallback(st_mode, st_chunks[k])
    /\ (st_run = 2 /\ st_pc = "returned" /\ st_storage = "ok") =>
           \A p \in FailedInFirstRun : \E q \in st_calls : st_chunks[q] = st_chunks[p]

\* the second run has returned: it called the service again for a chunk that
\* failed in the first run and took another chunk's answer from the cache
C29_Witness ==
    /\ st_run = 2 /\ st_pc = "returned" /\ st_storage = "ok"
    /\ \E p \in FailedInFirstRun : p \in st_calls
    /\ \E q \in 1..Len(st_chunks) : st_chunks[q] \in st_stored /\ q \notin st_calls
    /\ st_cache # {}

\* ------------------------------------------------- properties of a stage run

\* sub occurs in s as a contiguous run of tokens
IsSubstr(sub, s) == \E i \in 1..(Len(s) + 1) : OccursAt(s, sub, i)

\* the outputs joined by the paragraph separator
Reassembled == Join([k \in 1..Len(st_results) |-> st_results[k].text], ParaSep)

\* the results that come from a chunk: the service's answer to it (which is
\* also the only value the cache ever holds for it), or one of its fallbacks
DerivedFrom(mode, chunk) ==
    {Some(Reply(mode, chunk)), Some(Fallback(mode, chunk)), Some(chunk)}

\* C1: process_chunks_parallel returns a list as long as the chunk list, and
\* at every moment the entry at position k, once set, is a result computed
\* from chunks[k] (cached value, service output or fallback), whatever the
\* batch size and the order in which the tasks of a batch finish
C1_OrderPreservation ==
    (st_variant = "processor" /\ st_pc \in {"loop", "gather", "returned"}) =>
        /\ Len(st_results) = Len(st_chunks)
        /\ \A k \in 1..Len(st_results) :
               \/ st_results[k] = None /\ st_pc # "returned"
               \/ st_results[k] \in DerivedFrom(st_mode, st_chunks[k])

\* a second run with batches of two over three chunks, in which a later task
\* finished first, one output is a cached value, one a fresh answer and one a
\* fallback
C1_Witness ==
    /\ st_variant = "processor" /\ st_pc = "returned" /\ st_run = 2
    /\ st_parallel = 2 /\ Len(st_chunks) = 3
    /\ st_reordered
    /\ \E k \in 1..3 : k \notin st_calls
    /\ \E k \in st_failed : st_results[k] = Some(Fallback(st_mode, st_chunks[k]))
    /\ \E k \in st_calls \ st_failed :
           st_results[k] = Some(Reply(st_mode, st_chunks[k]))
    /\ \E k, l \in 1..3 : st_chunks[k] # st_chunks[l]

\* C2 as stated: whenever the client returned None for a chunk, the reassembled
\* text of the stage contains the chunk's text, token for token
C2_FallbackKeepsContent ==
    st_pc = "returned" =>
        \A k \in st_failed : IsSubstr(st_chunks[k], Reassembled)

\* str.rstrip()
RStrip(s) ==
    IF IsBlank(s) THEN <<>>
    ELSE SubSeq(s, 1, CHOOSE i \in 1..Len(s) :
                          /\ s[i] \notin Whitespace
                          /\ \A j \in (i+1)..Len(s) : s[j] \in Whitespace)

\* what a failed chunk leaves in the reassembled text: the chunk itself, but in
\* run_correction_pass the chunk with each page-break sentinel replaced by a
\* paragraph separator and trailing whitespace removed
KeptText(variant, mode, chunk) ==
    IF variant = "kdp" /\ mode = "correction"
    THEN RStrip(ReplacePageBreaks(chunk))
    ELSE chunk

\* C2 amended: whenever the client returned None for a chunk, the reassembled
\* text contains the chunk's text; in the correction pass of correcaoKDP.py it
\* contains it with page-break sentinels turned into paragraph separators and
\* trailing whitespace removed
C2_FallbackKeepsNormalisedContent ==
    st_pc = "returned" =>
        \A k \in st_failed :
            IsSubstr(KeptText(st_variant, st_mode, st_chunks[k]), Reassembled)

\* the correction pass of correcaoKDP.py has fallen back for a chunk that
\* holds a page-break sentinel, and has got an answer for another chunk
C2_Witness ==
    /\ st_pc = "returned" /\ st_variant = "kdp" /\ st_mode = "correction"
    /\ Len(st_chunks) >= 2
    /\ \E k \in st_failed : \E p \in 1..Len(st_chunks[k]) :
           st_chunks[k][p] = PAGE_BREAK_MARKER
    /\ st_failed # 1..Len(st_chunks)

\* C3 as stated: the second run of a stage on the same chunk list against the
\* same cache never calls the client
C3_CacheIdempotence == st_run = 2 => st_calls = {}

\* C3 amended: the second run never calls the client for a chunk whose text
\* the first run got a non-empty answer for
C3_CacheIdempotenceOfStored ==
    st_run = 2 => \A k \in st_calls : st_chunks[k] \notin st_stored

\* a second run over three chunks that has served some chunk from the cache
\* and has called the client for another
C3_Witness ==
    /\ st_run = 2 /\ st_pc = "returned" /\ Len(st_chunks) = 3
    /\ \E k \in 1..3 : st_chunks[k] \in st_stored /\ k \notin st_calls
    /\ st_calls # {}

FailureMarker(variant) ==
    IF variant = "kdp" THEN AI_FAILURE_MARKER_KDP ELSE AI_FAILURE_MARKER

\* s starts with the marker and ends with the chunk
MarkedPrefix(s, marker, chunk) ==
    /\ s # <<>> /\ Head(s) = marker
    /\ EndsWith(Tail(s), chunk)

MissOutputs(variant, mode, chunk) ==
    {Some(TaskOutput(mode, chunk, result)) : result \in ClientResults(variant, mode, chunk)}

\* C11: a cache failure is a cache miss. When the cache's storage cannot be
\* read or written, the stage still calls the client for every chunk and each
\* output is the one the client's result yields, as with an empty working cache.
C11_CacheFailureIsMiss ==
    (st_pc = "returned" /\ st_variant = "processor" /\ ~CacheWritable(st_storage)) =>
        /\ st_calls = 1..Len(st_chunks)
        /\ \A k \in 1..Len(st_chunks) :
               st_results[k] \in MissOutputs(st_variant, st_mode, st_chunks[k])



\* a row of the cache, once written, is still there and says the same after
\* any step of the stage, a crash and a restart included
RowsKept ==
    \A k \in 1..Len(st_chunks) :
        CacheGet(st_cache, st_mode, st_chunks[k]) # None =>
            CacheGet(st_cache', st_mode, st_chunks[k]) = CacheGet(st_cache, st_mode, st_chunks[k])

\* C13 as stated: cache entries are never expired and survive a crash. After a
\* crash at any point, the re-run calls the client for no chunk whose
\* transform had succeeded (the client had returned a text) before the crash.
C13_CrashResume ==
    /\ []((st_run = 2 /\ st_crashed) => \A k \in st_calls : st_chunks[k] \notin st_succeeded)
    /\ [][RowsKept]_vars

\* C13, amended: cache entries are never expired and survive a crash. After a
\* crash at any point, the re-run calls the client for no chunk whose
\* non-empty result had been written to the cache before the crash.
C13_CrashResumeOfStored ==
    /\ []((st_run = 2 /\ st_crashed) => \A k \in st_calls : st_chunks[k] \notin st_stored)
    /\ [][RowsKept]_vars

\* the first run crashed after some results were in the cache, and the re-run
\* has returned having called the client for some chunks and not for others
C13_Witness ==
    /\ st_pc = "returned" /\ st_run = 2 /\ st_crashed
    /\ st_stored # {}
    /\ st_calls # {}
    /\ \E k \in 1..Len(st_chunks) : k \notin st_calls /\ st_chunks[k] \in st_stored


\* C14: at every moment the number of chunk transforms in flight is at most
\* PARALLEL_CHUNKS, the configured parallelism.
C14_BoundedParallelism == Cardinality(InFlight) <= st_parallel

\* a stage with more chunks than the parallelism has as many calls in flight
\* as the parallelism allows
C14_Witness ==
    /\ st_pc = "gather" /\ st_variant = "processor"
    /\ st_parallel = 2 /\ Len(st_chunks) > st_parallel
    /\ Cardinality(InFlight) = st_parallel


\* how many chunks the stage had been through when it was stopped
Completed == IF st_i < Len(st_chunks) THEN st_i ELSE Len(st_chunks)

\* C15: cancellation keeps completed work. When a stage is cancelled while
\* transforms are in flight, every chunk whose transform had completed
\* successfully before the abort has its result in the cache afterwards, and
\* the stage reports a partial result holding the outputs completed so far.
C15_CancellationKeepsProgress ==
    st_pc = "cancelled" =>
        /\ \A text \in st_succeeded : CacheGet(st_cache, st_mode, text) # None
        /\ Len(st_results) >= Completed

\* ------------------------------------------------------- the cache on its own

MaxPuts == 3           \* the cache is written to at most this many times

\* texts that differ in a trailing blank or in case only
CacheTexts == {<<"a">>, <<"a", SP>>, <<"A">>}

CacheValues == {<<"x">>, <<"y">>}

CacheModes == {"correction", "footnotes"}

\* CorrectionCache(db_path): mkdir, CREATE TABLE IF NOT EXISTS on a new file
InitCache ==
    /\ ca_pc = "open"
    /\ ca_rows = {}
    /\ ca_puts = <<>>
    /\ ca_got = <<>>
    /\ ChunkIdle /\ MarkerIdle /\ RetryIdle /\ StageIdle /\ BookIdle /\ DocxIdle /\ PassIdle /\ MainIdle

\* set_correction / set_footnotes
CachePut ==
    /\ ca_pc = "open"
    /\ Len(ca_puts) < MaxPuts
    /\ \E mode \in CacheModes, text \in CacheTexts, value \in CacheValues :
        /\ ca_rows' = CacheSet(ca_rows, mode, text, value)
        /\ ca_puts' = Append(ca_puts, [mode |-> mode, text |-> text, value |-> value])
    /\ UNCHANGED <<ca_pc, ca_got>>
    /\ UNCHANGED <<chunkVars, markerVars, retryVars, stageVars, bookVars, docxVars, passVars, mainVars>>

\* get_correction / get_footnotes
CacheLookup ==
    /\ ca_pc = "open"
    /\ \E mode \in CacheModes, text \in CacheTexts :
        ca_got' = <<[mode |-> mode, text |-> text,
                     result |-> CacheGet(ca_rows, mode, text), at |-> Len(ca_puts)]>>
    /\ UNCHANGED <<ca_pc, ca_rows, ca_puts>>
    /\ UNCHANGED <<chunkVars, markerVars, retryVars, stageVars, bookVars, docxVars, passVars, mainVars>>

\* the process ends, however it ends: every set_* was committed when its
\* "with sqlite3.connect" block was left
CacheClose ==
    /\ ca_pc = "open"
    /\ ca_pc' = "closed"
    /\ UNCHANGED <<ca_rows, ca_puts, ca_got>>
    /\ UNCHANGED <<chunkVars, markerVars, retryVars, stageVars, bookVars, docxVars, passVars, mainVars>>

\* a later process constructs CorrectionCache over the same file: CREATE TABLE
\* IF NOT EXISTS leaves the tables alone, and no line of the code deletes a
\* row or updates one other than by set_*
CacheReopen ==
    /\ ca_pc = "closed"
    /\ ca_pc' = "open"
    /\ UNCHANGED <<ca_rows, ca_puts, ca_got>>
    /\ UNCHANGED <<chunkVars, markerVars, retryVars, stageVars, bookVars, docxVars, passVars, mainVars>>

NextCache == CachePut \/ CacheLookup \/ CacheClose \/ CacheReopen

SpecCache == InitCache /\ [][NextCache]_vars

\* the value of the latest of the puts for this stage and this very text, if any
RECURSIVE LatestPut(_, _, _)
LatestPut(puts, mode, text) ==
    IF puts = <<>> THEN None
    ELSE LET last == puts[Len(puts)] IN
         IF last.mode = mode /\ last.text = text THEN Some(last.value)
         ELSE LatestPut(SubSeq(puts, 1, Len(puts) - 1), mode, text)

\* C12: the cache is keyed by (stage, exact text). A lookup returns a value only
\* if there was an earlier put for the same stage and the very same text, and
\* then the value of the latest such put; and a put for one stage and text
\* leaves what a lookup returns for any other stage or text as it was.
C12_CacheKeying ==
    /\ [](\A g \in 1..Len(ca_got) :
            ca_got[g].result = LatestPut(SubSeq(ca_puts, 1, ca_got[g].at), ca_got[g].mode, ca_got[g].text))
    /\ [][Len(ca_puts') = Len(ca_puts) + 1 =>
            LET put == ca_puts'[Len(ca_puts')] IN
            \A mode \in CacheModes, text \in CacheTexts :
                (mode # put.mode \/ text # put.text) =>
                    CacheGet(ca_rows', mode, text) = CacheGet(ca_rows, mode, text)]_vars

\* a lookup has returned the value of the later of two puts for its stage and
\* text, while the other stage and the texts that differ from it in case or in
\* a trailing blank have other values or none
C12_Witness ==
    /\ ca_got # <<>>
    /\ ca_got[1].at = 3
    /\ ca_got[1].result = Some(<<"y">>)
    /\ ca_puts[1] = [mode |-> ca_got[1].mode, text |-> ca_got[1].text, value |-> <<"x">>]
    /\ ca_puts[2].text # ca_got[1].text /\ ca_puts[2].mode = ca_got[1].mode
    /\ ca_puts[3] = [mode |-> ca_got[1].mode, text |-> ca_got[1].text, value |-> <<"y">>]

\* ------------------------------------------------- the document reconstruction

\* [\dIVXLCDMivxlcdm], and [\dIVXLCDM] under re.IGNORECASE
NumeralChars ==
    {"I", "V", "X", "L", "C", "D", "M", "i", "v", "x", "l", "c", "d", "m",
     "0", "1", "2", "3", "4", "5", "6", "7", "8", "9"}

\* the words CHAPTER_PATTERNS look for, as the tokens of a text spell them (the
\* two patterns for the Portuguese word for chapter work as these do)
ChapterWords == {"Chapter", "chapter", "PARTE", "LIVRO"}

\* the first character of the literal a token stands for
FirstChar(tok) ==
    CASE tok = "Chapter" -> "C"
      [] tok = "chapter" -> "c"
      [] tok = "PARTE" -> "P"
      [] tok = "LIVRO" -> "L"
      [] tok = "Hello" -> "H"
      [] tok \in {"wordl", "world"} -> "w"
      [] tok = "Second" -> "S"
      [] tok = "page" -> "p"
      [] tok \in {PAGE_BREAK_MARKER, "="} -> "="
      [] tok \in {AI_FAILURE_MARKER, AI_FAILURE_MARKER_KDP, "*"} -> "*"
      [] tok \in {NOTA, NOTA_NOME, NOTA_TERMO, CONTEUDO_NOTA, "["} -> "["
      [] OTHER -> tok

\* ^\s*Chapter\s+[\dIVXLCDMivxlcdm]+ and its siblings, at the start of s
MatchesChapterWord(s) ==
    LET p == SkipWhitespace(s, 1)
    IN  /\ p <= Len(s) /\ s[p] \in ChapterWords
        /\ p + 1 <= Len(s) /\ s[p + 1] \in Whitespace
        /\ LET q == SkipWhitespace(s, p + 1)
           IN  q <= Len(s) /\ FirstChar(s[q]) \in NumeralChars

\* the first position from p on that does not hold a numeral character
RECURSIVE SkipNumerals(_, _)
SkipNumerals(s, p) ==
    IF p <= Len(s) /\ s[p] \in NumeralChars THEN SkipNumerals(s, p + 1) ELSE p

\* ^\s*[\dIVXLCDM]+\.\s+ at the start of s
MatchesNumbered(s) ==
    LET p == SkipWhitespace(s, 1)
        q == SkipNumerals(s, p)
    IN  /\ q > p
        /\ q <= Len(s) /\ s[q] = "."
        /\ q + 1 <= Len(s) /\ s[q + 1] \in Whitespace

\* mutant: no paragraph is taken for a chapter heading
ChapterNeverMatches(para_text) == FALSE

\* chapter_regex.match(para_text) is not None
ChapterMatches(para_text) == MatchesChapterWord(para_text) \/ MatchesNumbered(para_text)

\* what generate_docx writes for one paragraph
ParagraphEvent(para_text) ==
    [kind |-> IF ChapterMatches(para_text) THEN "chapter-heading"
              ELSE IF Head(para_text) = AI_FAILURE_MARKER THEN "failure-passage"
              ELSE "paragraph",
     text |-> para_text]

\* for para_text in part.strip().split("\n\n"): strip, skip the empty ones
RECURSIVE ParagraphEvents(_, _)
ParagraphEvents(paras, k) ==
    IF k > Len(paras) THEN <<>>
    ELSE LET para_text == Strip(paras[k])
         IN  (IF para_text = <<>> THEN <<>> ELSE <<ParagraphEvent(para_text)>>)
                 \o ParagraphEvents(paras, k + 1)

PageBreakEvent == [kind |-> "page-break", text |-> <<>>]

\* mutant: what follows the first page-break sentinel is left out
PartEventsFirstOnly(parts, part_idx) ==
    IF part_idx > 1 THEN <<>> ELSE ParagraphEvents(Split(Strip(parts[1]), ParaSep), 1)

\* for part_idx, part in enumerate(parts): a page break before every part
\* but the first, then the part's paragraphs
RECURSIVE PartEvents(_, _)
PartEvents(parts, part_idx) ==
    IF part_idx > Len(parts) THEN <<>>
    ELSE (IF part_idx > 1 THEN <<PageBreakEvent>> ELSE <<>>)
             \o ParagraphEvents(Split(Strip(parts[part_idx]), ParaSep), 1)
             \o PartEvents(parts, part_idx + 1)

\* the notes section: a page break, the title, an empty paragraph, one
\* paragraph per note
NoteEvents(footnotes) ==
    IF footnotes = <<>> THEN <<>>
    ELSE <<PageBreakEvent, [kind |-> "notes-title", text |-> <<"NOTAS">>],
           [kind |-> "blank", text |-> <<>>]>>
         \o [k \in 1..Len(footnotes) |->
                [kind |-> "note",
                 text |-> <<"[">> \o Str(footnotes[k].number) \o <<"]", SP>>
                          \o footnotes[k].term \o <<":", SP>> \o footnotes[k].explanation]]

\* generate_docx: what is written to the document, in order
generate_docx(text, footnotes) ==
    PartEvents(Split(text, <<PAGE_BREAK_MARKER>>), 1) \o NoteEvents(footnotes)


\* ---- apply_formatting_pass1 of correcaoKDP.py, as far as the document goes

\* the second marker of correcaoKDP.py (its text has a c with a cedilla and an
\* a with a tilde where this literal has plain letters)
FORMATTING_ERROR_MARKER == "*** ERRO DE FORMATACAO - TEXTO ORIGINAL ABAIXO ***"

\* \w
WordChars ==
    {"a", "b", "c", "d", "e", "f", "g", "h", "i", "j", "k", "l", "m", "n", "o", "p", "q",
     "r", "s", "t", "u", "v", "w", "x", "y", "z", "A", "B", "C", "D", "E", "F", "G", "H",
     "I", "J", "K", "L", "M", "N", "O", "P", "Q", "R", "S", "T", "U", "V", "W", "X", "Y",
     "Z", "0", "1", "2", "3", "4", "5", "6", "7", "8", "9", "_"}

\* ^\s*CHAPTER \w+ and its siblings under re.IGNORECASE: the word, one
\* blank, a word character
ChapterMatchesKDP(s) ==
    LET p == SkipWhitespace(s, 1)
    IN  /\ p + 2 <= Len(s)
        /\ s[p] \in ChapterWords
        /\ s[p + 1] = SP
        /\ FirstChar(s[p + 2]) \in WordChars

\* run.text of the run doc.add_page_break() makes: python-docx 0.8 renders
\* every w:br as a line feed, python-docx 1.x renders a page break as nothing
PageBreakRunText(lib) == IF lib = "0.8" THEN <<NL>> ELSE <<>>

\* paragraph.text
ParaText(event, lib) ==
    IF event.kind = "page-break" THEN PageBreakRunText(lib) ELSE event.text

\* any(run.text and '\f' in run.text for run in last_p.runs)
HasFormFeed(run_text) == run_text # <<>> /\ \E k \in 1..Len(run_text) : run_text[k] = "\f"

\* the check apply_formatting_pass1 makes before it adds a page break
last_para_is_page_break(doc, lib) ==
    /\ doc # <<>>
    /\ Strip(ParaText(doc[Len(doc)], lib)) = <<>>
    /\ HasFormFeed(ParaText(doc[Len(doc)], lib))

BlankEvent == [kind |-> "blank", text |-> <<>>]

\* what apply_formatting_pass1 writes for one paragraph that has text
ParagraphEventKDP(paragraph_text_clean) ==
    LET is_ai_failure_marker == Head(paragraph_text_clean) = AI_FAILURE_MARKER_KDP
        is_formatting_error_marker == Head(paragraph_text_clean) = FORMATTING_ERROR_MARKER
        is_chapter == /\ ~is_ai_failure_marker /\ ~is_formatting_error_marker
                      /\ ChapterMatchesKDP(paragraph_text_clean)
    IN  [kind |-> IF is_chapter THEN "chapter-heading"
                  ELSE IF is_ai_failure_marker \/ is_formatting_error_marker
                       THEN "failure-passage"
                  ELSE "paragraph",
         text |-> paragraph_text_clean]

\* for paragraph_text in paragraphs_in_part: an empty one adds an empty
\* paragraph unless the document ends in one without text
RECURSIVE ParagraphsKDP(_, _, _, _)
ParagraphsKDP(doc, paragraphs_in_part, k, lib) ==
    IF k > Len(paragraphs_in_part) THEN doc
    ELSE LET paragraph_text_clean == Strip(paragraphs_in_part[k])
         IN  IF paragraph_text_clean = <<>>
             THEN ParagraphsKDP(IF doc # <<>> /\ Strip(ParaText(doc[Len(doc)], lib)) # <<>>
                                THEN Append(doc, BlankEvent) ELSE doc,
                                paragraphs_in_part, k + 1, lib)
             ELSE ParagraphsKDP(Append(doc, ParagraphEventKDP(paragraph_text_clean)),
                                paragraphs_in_part, k + 1, lib)

\* for part_index, part in enumerate(parts)
RECURSIVE PartsKDP(_, _, _, _)
PartsKDP(doc, parts, part_index, lib) ==
    IF part_index > Len(parts) THEN doc
    ELSE LET part_clean == Strip(parts[part_index])
             broken == IF part_index > 1 /\ ~last_para_is_page_break(doc, lib)
                       THEN Append(doc, PageBreakEvent) ELSE doc
         IN  IF part_clean = <<>> THEN PartsKDP(broken, parts, part_index + 1, lib)
             ELSE PartsKDP(ParagraphsKDP(broken, Split(part_clean, ParaSep), 1, lib),
                           parts, part_index + 1, lib)

\* apply_formatting_pass1: the document after one more chunk
FormatChunk(doc, formatted_chunk_text, lib) ==
    IF Strip(formatted_chunk_text) = <<>> THEN doc
    ELSE PartsKDP(doc, Split(formatted_chunk_text, <<PAGE_BREAK_MARKER>>), 1, lib)

\* ------------------------------------------- the reconstruction as a machine

MaxPieces == 4         \* a text handed to the reconstruction is made of at most this many pieces

\* the marker the fallback of each program puts in front of a chunk
FailureMarkerOf(variant) ==
    IF variant = "kdp" THEN AI_FAILURE_MARKER_KDP ELSE AI_FAILURE_MARKER

\* what the texts are made of: a plain paragraph, a chapter title in lower
\* case, the failure marker, the paragraph separator, the page-break sentinel,
\* a line feed
DocPieces(variant) ==
    {<<"a">>, <<"chapter", SP, "1">>, <<FailureMarkerOf(variant)>>, ParaSep,
     <<PAGE_BREAK_MARKER>>, <<NL>>}

PieceSeqs(variant) == UNION {[1..n -> DocPieces(variant)] : n \in 0..MaxPieces}

OneNote == <<[number |-> 1, term |-> <<"a">>, explanation |-> <<"b">>]>>

\* generate_docx is handed one text; run_correction_pass hands
\* apply_formatting_pass1 one chunk after the other, here two
InitDocx ==
    /\ dx_pc = "start"
    /\ dx_variant \in {"processor", "kdp"}
    /\ dx_lib \in IF dx_variant = "kdp" THEN {"0.8", "1.x"} ELSE {"1.x"}
    /\ \E pieces \in PieceSeqs(dx_variant) :
          dx_chunks \in IF dx_variant = "processor" THEN {<<Flatten(pieces)>>}
                        ELSE {<<Flatten(SubSeq(pieces, 1, cut)),
                                Flatten(SubSeq(pieces, cut + 1, Len(pieces)))>> :
                                  cut \in 0..Len(pieces)}
    /\ dx_footnotes \in IF dx_variant = "processor" THEN {<<>>, OneNote} ELSE {<<>>}
    /\ dx_i = 0
    /\ dx_events = <<>>
    /\ ChunkIdle /\ MarkerIdle /\ RetryIdle /\ StageIdle /\ BookIdle /\ CacheIdle /\ PassIdle /\ MainIdle

\* generate_docx of processor.py and faz.py
DocxGenerate ==
    /\ dx_pc = "start" /\ dx_variant = "processor"
    /\ dx_events' = generate_docx(dx_chunks[1], dx_footnotes)
    /\ dx_i' = 1
    /\ dx_pc' = "done"
    /\ UNCHANGED <<dx_variant, dx_lib, dx_chunks, dx_footnotes>>
    /\ UNCHANGED <<chunkVars, markerVars, retryVars, stageVars, bookVars, cacheVars, passVars, mainVars>>

\* one call of apply_formatting_pass1
DocxFormatChunk ==
    /\ dx_pc = "start" /\ dx_variant = "kdp"
    /\ dx_i < Len(dx_chunks)
    /\ dx_events' = FormatChunk(dx_events, dx_chunks[dx_i + 1], dx_lib)
    /\ dx_i' = dx_i + 1
    /\ UNCHANGED <<dx_pc, dx_variant, dx_lib, dx_chunks, dx_footnotes>>
    /\ UNCHANGED <<chunkVars, markerVars, retryVars, stageVars, bookVars, cacheVars, passVars, mainVars>>

\* the last chunk has been formatted
DocxFinish ==
    /\ dx_pc = "start" /\ dx_variant = "kdp"
    /\ dx_i = Len(dx_chunks)
    /\ dx_pc' = "done"
    /\ UNCHANGED <<dx_variant, dx_lib, dx_chunks, dx_footnotes, dx_i, dx_events>>
    /\ UNCHANGED <<chunkVars, markerVars, retryVars, stageVars, bookVars, cacheVars, passVars, mainVars>>

NextDocx == DocxGenerate \/ DocxFormatChunk \/ DocxFinish

SpecDocx == InitDocx /\ [][NextDocx]_vars


\* ---- what the reconstruction is asked to keep

\* the paragraphs of a text: what lies between blank lines and page-break
\* sentinels, read from left to right
RECURSIVE Paragraphs(_, _)
Paragraphs(s, cur) ==
    IF s = <<>> THEN <<cur>>
    ELSE IF Head(s) = PAGE_BREAK_MARKER THEN <<cur>> \o Paragraphs(Tail(s), <<>>)
    ELSE IF Len(s) >= 2 /\ s[1] = NL /\ s[2] = NL
         THEN <<cur>> \o Paragraphs(SubSeq(s, 3, Len(s)), <<>>)
    ELSE Paragraphs(Tail(s), Append(cur, Head(s)))

\* those of them that have text, without the blanks around it
RECURSIVE NonEmpty(_)
NonEmpty(paras) ==
    IF paras = <<>> THEN <<>>
    ELSE (IF Strip(Head(paras)) = <<>> THEN <<>> ELSE <<Strip(Head(paras))>>)
             \o NonEmpty(Tail(paras))

\* the non-empty paragraphs of all the texts handed in, in order
RECURSIVE InputParagraphs(_)
InputParagraphs(chunks) ==
    IF chunks = <<>> THEN <<>>
    ELSE NonEmpty(Paragraphs(Head(chunks), <<>>)) \o InputParagraphs(Tail(chunks))

\* the kind of event a paragraph is to get
ExpectedKind(variant, para) ==
    IF (variant = "kdp" /\ ChapterMatchesKDP(para)) \/ (variant # "kdp" /\ ChapterMatches(para))
    THEN "chapter-heading"
    ELSE IF Head(para) \in {FailureMarkerOf(variant)}
                              \cup (IF variant = "kdp" THEN {FORMATTING_ERROR_MARKER} ELSE {})
         THEN "failure-passage"
    ELSE "paragraph"

ParagraphKinds == {"chapter-heading", "failure-passage", "paragraph"}

\* the events of the document that carry a paragraph of the text
TextEvents(events) == SelectSeq(events, LAMBDA e : e.kind \in ParagraphKinds)

BodyEvents(events) ==
    IF \E k \in 1..Len(events) : events[k].kind = "notes-title"
    THEN SubSeq(events, 1, (CHOOSE k \in 1..Len(events) : events[k].kind = "notes-title") - 2)
    ELSE events

\* how many groups of page-break sentinels a text has, a group being sentinels
\* with nothing but blanks and line feeds between them
RECURSIVE SentinelGroups(_, _)
SentinelGroups(s, in_group) ==
    IF s = <<>> THEN 0
    ELSE IF Head(s) = PAGE_BREAK_MARKER
         THEN (IF in_group THEN 0 ELSE 1) + SentinelGroups(Tail(s), TRUE)
    ELSE SentinelGroups(Tail(s), in_group /\ Head(s) \in Whitespace)

PageBreaks(events) == SelectSeq(events, LAMBDA e : e.kind = "page-break")

\* C17: no duplicate page breaks. The events of the reconstruction never hold
\* two page breaks in direct succession: a page break that would directly
\* follow another is suppressed, and every other sentinel boundary yields
\* exactly one page break.
C17_NoDuplicatePageBreaks ==
    dx_pc = "done" =>
        LET body == BodyEvents(dx_events) IN
        /\ \A k \in 1..(Len(body) - 1) :
               ~(body[k].kind = "page-break" /\ body[k + 1].kind = "page-break")
        /\ Len(PageBreaks(body)) = SentinelGroups(Join(dx_chunks, ParaSep), FALSE)

\* the lines of a text that hold the sentinel
SentinelLines(text) ==
    SelectSeq(Split(text, <<NL>>), LAMBDA line : \E k \in 1..Len(line) : line[k] = PAGE_BREAK_MARKER)

\* the line holds other text than one sentinel
NotAlone(line) == Strip(line) # <<PAGE_BREAK_MARKER>>

\* the texts have sentinels, every one of them on a line with other text
OnlyInlineSentinels(chunks) ==
    /\ \E c \in 1..Len(chunks) : SentinelLines(chunks[c]) # <<>>
    /\ \A c \in 1..Len(chunks) :
           \A k \in 1..Len(SentinelLines(chunks[c])) : NotAlone(SentinelLines(chunks[c])[k])

\* C25: the sentinel is a page break only when it stands alone on its line.
\* When every sentinel of the text shares its line with other text, the
\* reconstruction emits no page break and the sentinel is found in the text of
\* a paragraph.
C25_SentinelLineLevel ==
    (dx_pc = "done" /\ OnlyInlineSentinels(dx_chunks)) =>
        LET body == BodyEvents(dx_events) IN
        /\ PageBreaks(body) = <<>>
        /\ \E k \in 1..Len(body) :
               \E t \in 1..Len(body[k].text) : body[k].text[t] = PAGE_BREAK_MARKER

\* ------------------------------------------ the correction pass and its saves

MaxPassChunks == 21    \* the pass is handed at most this many chunks

SAVE_EVERY == 10       \* run_correction_pass: processed_total % 10 == 0

\* text_chunks: a chapter title, then plain paragraphs
PassChunkAt(k) == IF k = 1 THEN <<"chapter", SP, "1">> ELSE <<"a">>

\* the chunks whose correction or formatting may fail
PassDeviants == {1, SAVE_EVERY}

\* f"{FORMATTING_ERROR_MARKER}\n\n{chunk}"
FallbackFormatting(chunk) == <<FORMATTING_ERROR_MARKER>> \o ParaSep \o chunk

\* the documents an apply_formatting_pass1 that raises on its way from doc to
\* full may leave behind
Partial(doc, full) == {SubSeq(full, 1, k) : k \in Len(doc)..Len(full)}

\* the body of the loop up to the save: the document after one chunk, and
\* which counter went up
ChunkOutcomes(doc, k, lib) ==
    LET chunk == PassChunkAt(k)
        ok == [doc |-> FormatChunk(doc, Reply("correction", chunk), lib), failed |-> FALSE]
        api == {[doc |-> d, failed |-> TRUE] :
                   d \in Partial(doc, FormatChunk(doc, FallbackKDP(chunk), lib))}
        fmt == UNION {{[doc |-> d, failed |-> TRUE] :
                          d \in Partial(p, FormatChunk(p, FallbackFormatting(chunk), lib))} :
                      p \in Partial(doc, FormatChunk(doc, Reply("correction", chunk), lib))}
    IN  IF k \in PassDeviants THEN {ok} \cup api \cup fmt ELSE {ok}

\* mutant: a save every tenth chunk only
CheckpointDueTenthOnly(processed_total, i, n) ==
    processed_total > 0 /\ processed_total % SAVE_EVERY = 0

\* if processed_total > 0 and (processed_total % 10 == 0 or (i + 1) == len(text_chunks))
\* (i counted from 0)
CheckpointDue(processed_total, i, n) ==
    processed_total > 0 /\ (processed_total % SAVE_EVERY = 0 \/ i + 1 = n)

\* create_chunks returned some chunks, the template was loaded and emptied
InitPass ==
    /\ ps_pc = "loop"
    /\ ps_lib \in {"0.8", "1.x"}
    /\ ps_n \in 1..MaxPassChunks
    /\ ps_i = 0
    /\ ps_processed = 0
    /\ ps_failed = 0
    /\ ps_doc = <<>>
    /\ ps_file \in {[state |-> "absent", events |-> <<>>], [state |-> "old", events |-> <<>>]}
    /\ ps_writes = <<>>
    /\ ChunkIdle /\ MarkerIdle /\ RetryIdle /\ StageIdle /\ BookIdle /\ CacheIdle /\ DocxIdle /\ MainIdle

\* one pass of the loop up to the save: the correction, apply_formatting_pass1
\* or a fallback, the counters
PassChunk ==
    /\ ps_pc = "loop"
    /\ ps_i < ps_n
    /\ \E o \in ChunkOutcomes(ps_doc, ps_i + 1, ps_lib) :
          /\ ps_doc' = o.doc
          /\ ps_processed' = ps_processed + (IF o.failed THEN 0 ELSE 1)
          /\ ps_failed' = ps_failed + (IF o.failed THEN 1 ELSE 0)
    /\ ps_i' = ps_i + 1
    /\ ps_pc' = IF CheckpointDue(ps_processed' + ps_failed', ps_i, ps_n) THEN "save" ELSE "loop"
    /\ UNCHANGED <<ps_lib, ps_n, ps_file, ps_writes>>
    /\ UNCHANGED <<chunkVars, markerVars, retryVars, stageVars, bookVars, cacheVars, docxVars, mainVars>>

\* the periodic save: doc.save(temp_save_path), shutil.move onto the output
\* path; when either raises the error is logged and the temporary file removed
PassCheckpoint ==
    /\ ps_pc = "save"
    /\ \E ok \in BOOLEAN :
          /\ ps_file' = IF ok THEN [state |-> "saved", events |-> ps_doc] ELSE ps_file
          /\ ps_writes' = Append(ps_writes, [kind |-> "checkpoint", at |-> ps_processed + ps_failed,
                                             ok |-> ok, events |-> Len(ps_doc)])
    /\ ps_pc' = "loop"
    /\ UNCHANGED <<ps_lib, ps_n, ps_i, ps_processed, ps_failed, ps_doc>>
    /\ UNCHANGED <<chunkVars, markerVars, retryVars, stageVars, bookVars, cacheVars, docxVars, mainVars>>

\* after the loop: doc.save(output_docx_path), straight onto the output path,
\* so that a write that fails may leave the file as it was or damaged; the
\* error is logged and the pass returns (True, text) all the same
PassFinalSave ==
    /\ ps_pc = "loop"
    /\ ps_i = ps_n
    /\ \E ok \in BOOLEAN :
          /\ ps_file' \in IF ok THEN {[state |-> "saved", events |-> ps_doc]}
                          ELSE {ps_file, [state |-> "damaged", events |-> <<>>]}
          /\ ps_writes' = Append(ps_writes, [kind |-> "final", at |-> ps_processed + ps_failed,
                                             ok |-> ok, events |-> Len(ps_doc)])
    /\ ps_pc' = "returned"
    /\ UNCHANGED <<ps_lib, ps_n, ps_i, ps_processed, ps_failed, ps_doc>>
    /\ UNCHANGED <<chunkVars, markerVars, retryVars, stageVars, bookVars, cacheVars, docxVars, mainVars>>

NextPass == PassChunk \/ PassCheckpoint \/ PassFinalSave

SpecPass == InitPass /\ [][NextPass]_vars

\* ---- what the saves are asked to keep

IsPrefixOf(a, b) == Len(a) <= Len(b) /\ SubSeq(b, 1, Len(a)) = a

\* the counts at which a periodic save is due among the first i chunks of n
DueAmong(i, n) == {k \in 1..i : k % SAVE_EVERY = 0 \/ k = n}

\* the counts at which a periodic save has been attempted
CheckpointsAt == {ps_writes[w].at : w \in {v \in 1..Len(ps_writes) : ps_writes[v].kind = "checkpoint"}}

\* C20: a periodic save is attempted after every tenth chunk and after the last
\* one; no step of the pass takes an event out of the document in memory, a
\* save that fails least of all; after a failed periodic save the pass goes on
\* and a later write is attempted; every write that succeeds puts the whole
\* document of that moment at the output path
C20_CheckpointKeepsEvents ==
    /\ [](ps_pc \in {"loop", "returned"} => CheckpointsAt = DueAmong(ps_i, ps_n))
    /\ [](ps_pc = "save" => /\ ps_i \in DueAmong(ps_i, ps_n)
                            /\ CheckpointsAt = DueAmong(ps_i, ps_n) \ {ps_i})
    /\ [](ps_processed + ps_failed = ps_i)
    /\ [][IsPrefixOf(ps_doc, ps_doc')]_vars
    /\ [][ps_writes' # ps_writes =>
              LET w == ps_writes'[Len(ps_writes')]
              IN  /\ ps_writes' = Append(ps_writes, w)
                  /\ ps_doc' = ps_doc
                  /\ w.events = Len(ps_doc)
                  /\ w.ok => ps_file' = [state |-> "saved", events |-> ps_doc]
                  /\ (w.kind = "checkpoint" /\ ~w.ok) => (ps_file' = ps_file /\ ps_pc' = "loop")]_vars
    /\ [](ps_pc = "returned" =>
              /\ ps_i = ps_n
              /\ ps_writes[Len(ps_writes)].kind = "final"
              /\ ps_writes[Len(ps_writes)].events = Len(ps_doc)
              /\ ps_writes[Len(ps_writes)].ok => ps_file.events = ps_doc)

\* 21 chunks: the save after the tenth fails, the one after the twentieth
\* succeeds, the one after the last fails, the final write succeeds
C20_Witness ==
    /\ ps_pc = "returned"
    /\ ps_n = 21
    /\ Len(ps_writes) = 4
    /\ ~ps_writes[1].ok /\ ps_writes[2].ok /\ ~ps_writes[3].ok /\ ps_writes[4].ok
    /\ ps_failed > 0
    /\ ps_file = [state |-> "saved", events |-> ps_doc]
    /\ Len(ps_doc) >= 21

\* ------------------------------------------------------ one book, end to end

MAX_CHUNK_TOKENS == 1500   \* settings.MAX_CHUNK_TOKENS
PARALLEL_CHUNKS == 2       \* settings.PARALLEL_CHUNKS
SmallChunkTokens == 5      \* a max_tokens that splits the books below
MaxParagraphs == 4         \* a book has at most this many paragraphs

\* the paragraphs a book is made of
BookParagraphs ==
    { <<"Chapter", SP, "I">>, <<"Hello", SP, "wordl", ".">>,
      <<PAGE_BREAK_MARKER>>, <<"Second", SP, "page", ".">> }

Books ==
    {Join(paras, ParaSep) : paras \in UNION {[1..n -> BookParagraphs] : n \in 0..MaxParagraphs}}

\* the correcting service: the misspelt word comes back spelt right
RECURSIVE Corrected(_)
Corrected(s) ==
    IF s = <<>> THEN <<>>
    ELSE <<IF Head(s) = "wordl" THEN "world" ELSE Head(s)>> \o Corrected(Tail(s))

\* the annotating service, when it marks something: a marker after the text
Annotated(s) == s \o <<SP, NOTA, "t", "|", "e", "]">>

\* the chunk the service deviates for: none (0), or the first one
Deviants(chunks) == {k \in 0..Len(chunks) : k <= 1}

\* what client.generate returns for each chunk of a stage: the service's answer,
\* but None or a marked text (deviation) for the chunk at position deviant
CorrectionAnswers(chunks, deviant) ==
    [k \in 1..Len(chunks) |->
        IF k = deviant THEN None ELSE Some(Corrected(chunks[k]))]

AnnotationAnswers(chunks, deviant, deviation) ==
    [k \in 1..Len(chunks) |->
        IF k # deviant THEN Some(chunks[k])
        ELSE IF deviation = "failure" THEN None ELSE Some(Annotated(chunks[k]))]

\* one batch of process_chunks_parallel once every task is done
FinishedTasks(tasks, mode, answers) ==
    [j \in 1..Len(tasks) |->
        IF tasks[j].pc = "done" THEN tasks[j]
        ELSE [tasks[j] EXCEPT !.pc = "done",
                              !.out = TaskOutput(mode, tasks[j].chunk, answers[tasks[j].idx])]]

\* the cache after the tasks of a batch that got an answer have written to it
RECURSIVE CacheAfter(_, _, _, _, _)
CacheAfter(cache, tasks, mode, answers, j) ==
    IF j > Len(tasks) THEN cache
    ELSE CacheAfter(
             IF tasks[j].pc = "calling" /\ Truthy(answers[tasks[j].idx])
             THEN CacheSet(cache, mode, tasks[j].chunk, answers[tasks[j].idx].text)
             ELSE cache,
             tasks, mode, answers, j + 1)

\* process_chunks_parallel from the batch starting after position i on:
\* the returned list and the cache it leaves
RECURSIVE RunBatches(_, _, _, _, _, _)
RunBatches(cache, mode, chunks, answers, i, results) ==
    IF i >= Len(chunks)
    THEN [results |-> FillNone(results, chunks), cache |-> cache]
    ELSE LET tasks == BatchTasks("ok", cache, mode, chunks, i, PARALLEL_CHUNKS)
         IN  RunBatches(CacheAfter(cache, tasks, mode, answers, 1), mode, chunks, answers,
                        i + PARALLEL_CHUNKS,
                        StoreResults(results, FinishedTasks(tasks, mode, answers), 1))

process_chunks_parallel(cache, mode, chunks, answers) ==
    RunBatches(cache, mode, chunks, answers, 0, [k \in 1..Len(chunks) |-> None])

\* "\n\n".join(results)
JoinResults(results) == Join([k \in 1..Len(results) |-> results[k].text], ParaSep)

InitBook ==
    /\ bk_pc = "read"
    /\ bk_original \in Books
    /\ bk_max \in {SmallChunkTokens, MAX_CHUNK_TOKENS}
    /\ bk_chunks = <<>>
    /\ bk_text = <<>>
    /\ bk_cache = {}
    /\ bk_plan = <<>>
    /\ bk_footnotes = <<>>
    /\ bk_events = <<>>
    /\ bk_success = "pending"
    /\ ChunkIdle /\ MarkerIdle /\ RetryIdle /\ StageIdle /\ CacheIdle /\ DocxIdle /\ PassIdle /\ MainIdle

\* process_book: the file is read and chunked; no chunks, return False
BookChunk ==
    /\ bk_pc = "read"
    /\ bk_chunks' = create_chunks(bk_original, bk_max)
    /\ IF bk_chunks' = <<>>
       THEN bk_pc' = "returned" /\ bk_success' = "false"
       ELSE bk_pc' = "correction" /\ bk_success' = bk_success
    /\ UNCHANGED <<bk_original, bk_max, bk_text, bk_cache, bk_plan, bk_footnotes, bk_events>>
    /\ UNCHANGED <<chunkVars, markerVars, retryVars, stageVars, cacheVars, docxVars, passVars, mainVars>>

\* process_book: the correction stage returns, its outputs are joined
BookCorrect ==
    /\ bk_pc = "correction"
    /\ \E deviant \in Deviants(bk_chunks) :
        LET run == process_chunks_parallel(bk_cache, "correction", bk_chunks,
                                           CorrectionAnswers(bk_chunks, deviant))
        IN  /\ bk_text' = JoinResults(run.results)
            /\ bk_cache' = run.cache
            /\ bk_plan' = Append(bk_plan, IF deviant = 0 THEN "none" ELSE "failure")
    /\ bk_pc' = "footnotes"
    /\ UNCHANGED <<bk_original, bk_max, bk_chunks, bk_footnotes, bk_events, bk_success>>
    /\ UNCHANGED <<chunkVars, markerVars, retryVars, stageVars, cacheVars, docxVars, passVars, mainVars>>

\* process_book: the corrected text is chunked again, the annotation stage
\* returns, its outputs are joined
BookAnnotate ==
    /\ bk_pc = "footnotes"
    /\ bk_chunks' = create_chunks(bk_text, bk_max)
    /\ \E deviant \in Deviants(bk_chunks'), deviation \in {"failure", "marked"} :
        LET run == process_chunks_parallel(bk_cache, "footnotes", bk_chunks',
                       AnnotationAnswers(bk_chunks', deviant, deviation))
        IN  /\ deviant = 0 => deviation = "failure"
            /\ bk_text' = JoinResults(run.results)
            /\ bk_cache' = run.cache
            /\ bk_plan' = Append(bk_plan, IF deviant = 0 THEN "none" ELSE deviation)
    /\ bk_pc' = "docx"
    /\ UNCHANGED <<bk_original, bk_max, bk_footnotes, bk_events, bk_success>>
    /\ UNCHANGED <<chunkVars, markerVars, retryVars, stageVars, cacheVars, docxVars, passVars, mainVars>>

\* process_book: the markers are extracted and the document is written
BookReconstruct ==
    /\ bk_pc = "docx"
    /\ LET extracted == extract_footnotes(bk_text)
       IN  /\ bk_text' = extracted.clean
           /\ bk_footnotes' = extracted.notes
           /\ bk_events' = generate_docx(extracted.clean, extracted.notes)
    /\ bk_success' = "true"
    /\ bk_pc' = "returned"
    /\ UNCHANGED <<bk_original, bk_max, bk_chunks, bk_cache, bk_plan>>
    /\ UNCHANGED <<chunkVars, markerVars, retryVars, stageVars, cacheVars, docxVars, passVars, mainVars>>

\* process_book: generate_docx finds no template and returns False
BookTemplateMissing ==
    /\ bk_pc = "docx"
    /\ LET extracted == extract_footnotes(bk_text)
       IN  /\ bk_text' = extracted.clean
           /\ bk_footnotes' = extracted.notes
    /\ bk_success' = "false"
    /\ bk_pc' = "returned"
    /\ UNCHANGED <<bk_original, bk_max, bk_chunks, bk_cache, bk_plan, bk_events>>
    /\ UNCHANGED <<chunkVars, markerVars, retryVars, stageVars, cacheVars, docxVars, passVars, mainVars>>

NextBook ==
    BookChunk \/ BookCorrect \/ BookAnnotate \/ BookReconstruct \/ BookTemplateMissing

SpecBook == InitBook /\ [][NextBook]_vars

\* ----------------------------------------------------- the end-to-end scenario

ScenarioInput ==
    Join(<< <<"Chapter", SP, "I">>, <<"Hello", SP, "wordl", ".">>,
            <<PAGE_BREAK_MARKER>>, <<"Second", SP, "page", ".">> >>, ParaSep)

ScenarioEvents ==
    << [kind |-> "chapter-heading", text |-> <<"Chapter", SP, "I">>],
       [kind |-> "paragraph", text |-> <<"Hello", SP, "world", ".">>],
       PageBreakEvent,
       [kind |-> "paragraph", text |-> <<"Second", SP, "page", ".">>] >>

\* the book of the scenario, in one chunk, corrected by a service that answered
\* every chunk and annotated by one that marked nothing
ScenarioRun ==
    /\ bk_original = ScenarioInput
    /\ bk_max = MAX_CHUNK_TOKENS
    /\ bk_plan = <<"none", "none">>

\* C7: the scenario's book, processed in one chunk by its correction and
\* annotation stages, is written as chapter heading 'Chapter I', paragraph
\* 'Hello world.', page break, paragraph 'Second page.', with no footnotes
C7_EndToEndScenario ==
    (ScenarioRun /\ bk_pc = "returned" /\ bk_success = "true") =>
        /\ bk_events = ScenarioEvents
        /\ bk_footnotes = <<>>

C7_Witness ==
    /\ ScenarioRun /\ bk_pc = "returned" /\ bk_success = "true"
    /\ Len(bk_chunks) = 1
    /\ bk_events # <<>>

\* --------------------------------------- the books of a library and the logs

MaxRuns == 2           \* main is executed at most this many times on the library

\* the folders of BASE_INPUT_TXT_DIR: an author, and one whose folder name
\* starts with a space
AuthorFolders == { <<"A">>, <<SP, "A">> }

\* file_identifier = f"{author_name}/{book_filename}"
FileIdentifier(author_name, book_filename) == author_name \o <<"/">> \o book_filename

\* the books main goes through, one per author folder, in the order of
\* sorted(author_folders): the space sorts before the letter
Libraries ==
    { << FileIdentifier(<<SP, "A">>, <<"b.txt">>) >>,
      << FileIdentifier(<<"A">>, <<"b.txt">>) >>,
      << FileIdentifier(<<SP, "A">>, <<"b.txt">>), FileIdentifier(<<"A">>, <<"b.txt">>) >> }

\* load_processed_files, load_translated_files: for line in f:
\* cleaned_line = line.strip(); if cleaned_line: processed.add(cleaned_line)
Loaded(lines) == { Strip(lines[i]) : i \in 1..Len(lines) } \ { <<>> }

\* ... and what they return when open() or the reading raises: the error is
\* logged and the lines read so far are returned
LoadedBeforeError(lines) == { Loaded(SubSeq(lines, 1, n)) : n \in 0..Len(lines) }

\* log_processed_file, log_translated_file: f.write(f"{file_identifier}\n")
WithLine(lines, file_identifier) == Append(lines, file_identifier)

\* if correction_successful_this_run: if output_docx_path is None or not
\* os.path.exists(output_docx_path): ... elif file_identifier in
\* translated_files_set: ... else: the translation is tried
TranslationDue(correction_successful_this_run, docx, translated, file_identifier) ==
    /\ correction_successful_this_run
    /\ file_identifier \in docx
    /\ file_identifier \notin translated

\* the book main is at
ThisBook == mn_books[mn_k]

Event(ev) ==
    [run |-> mn_run, id |-> ThisBook, ev |-> ev,
     inlog |-> \E i \in 1..Len(mn_log) : mn_log[i] = ThisBook]

InitMain ==
    /\ mn_pc = "load"
    /\ mn_run = 1
    /\ mn_books \in Libraries
    /\ mn_k = 0
    /\ mn_log = <<>>
    /\ mn_tlog = <<>>
    /\ mn_processed = {}
    /\ mn_translated = {}
    /\ mn_csr = FALSE
    /\ mn_docx = {}
    /\ mn_faulty = FALSE
    /\ mn_hist = <<>>
    /\ ChunkIdle /\ MarkerIdle /\ RetryIdle /\ StageIdle /\ BookIdle /\ CacheIdle /\ DocxIdle /\ PassIdle

\* main: the two logs are loaded and the loop over the books begins
MainLoad ==
    /\ mn_pc = "load"
    /\ \/ /\ mn_processed' = Loaded(mn_log)
          /\ mn_translated' = Loaded(mn_tlog)
          /\ UNCHANGED mn_faulty
       \/ /\ mn_processed' \in LoadedBeforeError(mn_log)
          /\ mn_translated' \in LoadedBeforeError(mn_tlog)
          /\ mn_faulty' = TRUE
    /\ mn_k' = 1
    /\ mn_pc' = "book"
    /\ UNCHANGED <<mn_run, mn_books, mn_log, mn_tlog, mn_csr, mn_docx, mn_hist>>
    /\ UNCHANGED <<chunkVars, markerVars, retryVars, stageVars, bookVars, cacheVars, docxVars, passVars>>

\* if file_identifier in processed_files_set: the correction is skipped
CorrectionSkipped ==
    /\ mn_pc = "book" /\ mn_k <= Len(mn_books)
    /\ ThisBook \in mn_processed
    /\ mn_csr' = TRUE
    /\ mn_pc' = "translation"
    /\ UNCHANGED <<mn_run, mn_books, mn_k, mn_log, mn_tlog, mn_processed, mn_translated,
                   mn_docx, mn_faulty, mn_hist>>
    /\ UNCHANGED <<chunkVars, markerVars, retryVars, stageVars, bookVars, cacheVars, docxVars, passVars>>

\* os.makedirs raises: the book is given up (continue)
MkdirFails ==
    /\ mn_pc = "book" /\ mn_k <= Len(mn_books)
    /\ ThisBook \notin mn_processed
    /\ mn_k' = mn_k + 1
    /\ mn_csr' = FALSE
    /\ UNCHANGED <<mn_pc, mn_run, mn_books, mn_log, mn_tlog, mn_processed, mn_translated,
                   mn_docx, mn_faulty, mn_hist>>
    /\ UNCHANGED <<chunkVars, markerVars, retryVars, stageVars, bookVars, cacheVars, docxVars, passVars>>

\* run_correction_pass is called for the book and returns or raises
Pass1 ==
    /\ mn_pc = "book" /\ mn_k <= Len(mn_books)
    /\ ThisBook \notin mn_processed
    /\ \/ /\ mn_hist' = mn_hist \o <<Event("pass1"), Event("pass1_ok")>>
          /\ mn_docx' = mn_docx \cup {ThisBook}
          /\ mn_pc' = "pass2"
          /\ UNCHANGED mn_csr
       \/ /\ mn_hist' = Append(mn_hist, Event("pass1"))
          /\ mn_docx' \in {mn_docx, mn_docx \cup {ThisBook}}
          /\ mn_csr' = FALSE
          /\ mn_pc' = "translation"
    /\ UNCHANGED <<mn_run, mn_books, mn_k, mn_log, mn_tlog, mn_processed, mn_translated,
                   mn_faulty>>
    /\ UNCHANGED <<chunkVars, markerVars, retryVars, stageVars, bookVars, cacheVars, docxVars, passVars>>

\* run_footnote_id_pass is called and returns or raises
Pass2 ==
    /\ mn_pc = "pass2"
    /\ \/ /\ mn_hist' = Append(mn_hist, Event("pass2_ok"))
          /\ mn_pc' = "pass3"
          /\ UNCHANGED mn_csr
       \/ /\ mn_csr' = FALSE
          /\ mn_pc' = "translation"
          /\ UNCHANGED mn_hist
    /\ UNCHANGED <<mn_run, mn_books, mn_k, mn_log, mn_tlog, mn_processed, mn_translated,
                   mn_docx, mn_faulty>>
    /\ UNCHANGED <<chunkVars, markerVars, retryVars, stageVars, bookVars, cacheVars, docxVars, passVars>>

\* run_final_txt_generation is called and returns or raises; after a success
\* the book is written to the log, which may fail, and added to the set
Pass3 ==
    /\ mn_pc = "pass3"
    /\ \/ /\ \/ /\ mn_log' = WithLine(mn_log, ThisBook)
                /\ mn_hist' = mn_hist \o <<Event("pass3_ok"), Event("logged")>>
             \/ /\ mn_hist' = Append(mn_hist, Event("pass3_ok"))
                /\ UNCHANGED mn_log
          /\ mn_processed' = mn_processed \cup {ThisBook}
          /\ mn_csr' = TRUE
       \/ /\ mn_csr' = FALSE
          /\ UNCHANGED <<mn_log, mn_processed, mn_hist>>
    /\ mn_pc' = "translation"
    /\ UNCHANGED <<mn_run, mn_books, mn_k, mn_tlog, mn_translated, mn_docx, mn_faulty>>
    /\ UNCHANGED <<chunkVars, markerVars, retryVars, stageVars, bookVars, cacheVars, docxVars, passVars>>

\* the translation step of the book, and on to the next book
Translation ==
    /\ mn_pc = "translation"
    /\ IF TranslationDue(mn_csr, mn_docx, mn_translated, ThisBook)
       THEN \/ UNCHANGED <<mn_tlog, mn_translated, mn_hist>>
            \/ /\ mn_hist' = mn_hist \o <<Event("translate"), Event("exit1")>>
               /\ UNCHANGED <<mn_tlog, mn_translated>>
            \/ /\ \/ /\ mn_tlog' = WithLine(mn_tlog, ThisBook)
                     /\ mn_hist' = mn_hist \o <<Event("translate"), Event("exit0"),
                                                 Event("translated")>>
                  \/ /\ mn_hist' = mn_hist \o <<Event("translate"), Event("exit0")>>
                     /\ UNCHANGED mn_tlog
               /\ mn_translated' = mn_translated \cup {ThisBook}
       ELSE UNCHANGED <<mn_tlog, mn_translated, mn_hist>>
    /\ mn_k' = mn_k + 1
    /\ mn_pc' = "book"
    /\ UNCHANGED <<mn_run, mn_books, mn_log, mn_processed, mn_csr, mn_docx, mn_faulty>>
    /\ UNCHANGED <<chunkVars, markerVars, retryVars, stageVars, bookVars, cacheVars, docxVars, passVars>>

\* the loops are over: main logs its summary and returns
MainEnd ==
    /\ mn_pc = "book" /\ mn_k > Len(mn_books)
    /\ mn_pc' = "end"
    /\ UNCHANGED <<mn_run, mn_books, mn_k, mn_log, mn_tlog, mn_processed, mn_translated,
                   mn_csr, mn_docx, mn_faulty, mn_hist>>
    /\ UNCHANGED <<chunkVars, markerVars, retryVars, stageVars, bookVars, cacheVars, docxVars, passVars>>

\* main is executed again on the same library with the logs as they are; some
\* of the DOCX files may have been taken away in between
MainAgain ==
    /\ mn_pc = "end" /\ mn_run < MaxRuns
    /\ mn_run' = mn_run + 1
    /\ mn_pc' = "load"
    /\ mn_k' = 0
    /\ mn_processed' = {}
    /\ mn_translated' = {}
    /\ mn_csr' = FALSE
    /\ mn_docx' \in SUBSET mn_docx
    /\ mn_hist' = <<>>
    /\ UNCHANGED <<mn_books, mn_log, mn_tlog, mn_faulty>>
    /\ UNCHANGED <<chunkVars, markerVars, retryVars, stageVars, bookVars, cacheVars, docxVars, passVars>>

NextMain ==
    \/ MainLoad \/ CorrectionSkipped \/ MkdirFails \/ Pass1 \/ Pass2 \/ Pass3
    \/ Translation \/ MainEnd \/ MainAgain

SpecMain == InitMain /\ [][NextMain]_vars

\* ---- the order of the passes, the logs and the translation

\* before place i of the history, event ev of the same book in the same execution
Earlier(i, ev) ==
    \E j \in 1..(i - 1) :
        /\ mn_hist[j].ev = ev
        /\ mn_hist[j].run = mn_hist[i].run
        /\ mn_hist[j].id = mn_hist[i].id

LoggedAfterThreePasses ==
    \A i \in 1..Len(mn_hist) :
        mn_hist[i].ev = "logged" =>
            Earlier(i, "pass1_ok") /\ Earlier(i, "pass2_ok") /\ Earlier(i, "pass3_ok")

LoggedNeverCorrectedAgain ==
    \A i \in 1..Len(mn_hist) : mn_hist[i].ev = "pass1" => ~mn_hist[i].inlog

TranslationAfterCorrection ==
    \A i \in 1..Len(mn_hist) :
        mn_hist[i].ev = "translate" => (Earlier(i, "pass3_ok") \/ mn_hist[i].inlog)

TranslatedAfterExit0 ==
    \A i \in 1..Len(mn_hist) : mn_hist[i].ev = "translated" => Earlier(i, "exit0")

\* C30: a book is written to the processed log only after its three passes
\* have succeeded in that execution; a book that is in the log is never sent
\* through the correction again; the translation of a book is started only if
\* its correction succeeded in this execution or the book was in the log; and
\* it is written to the translated log only after the translator exited with 0
C30_ProcessedLogOrdering ==
    /\ LoggedAfterThreePasses
    /\ LoggedNeverCorrectedAgain
    /\ TranslationAfterCorrection
    /\ TranslatedAfterExit0

\* no folder name starts or ends with whitespace
PlainIdentifiers == \A k \in 1..Len(mn_books) : Strip(mn_books[k]) = mn_books[k]

\* the same for libraries whose identifiers the logs give back as they were
\* written, as long as the logs could be read
LogOrderingPlain ==
    (PlainIdentifiers /\ ~mn_faulty) => C30_ProcessedLogOrdering

\* the parts of C30 that need nothing of the identifiers or the logs
LogWrittenInOrder ==
    /\ LoggedAfterThreePasses
    /\ TranslatedAfterExit0

====
